---------------------------- MODULE Spec2Model ----------------------------
(***************************************************************************)
(* Model of petrarch/PETRreader.py: the FIN line source (open_FIN,         *)
(* close_FIN, read_FIN_line) and the dictionary compilers built on it      *)
(* (read_discard_list, read_verb_dictionary, read_actor_dictionary,        *)
(* read_agent_dictionary).                                                 *)
(*                                                                         *)
(* Python strings are sequences of one-character strings, so that find,    *)
(* partition, strip, slicing and the suffix rules are computed character   *)
(* by character as the code computes them.  Python dicts are functions     *)
(* whose keys are such strings; a string stored as a dict value is boxed   *)
(* (Str) so that a dict value is always a dict.                            *)
(***************************************************************************)
EXTENDS Integers, Sequences, FiniteSets, TLC

VARIABLES
    file,           \* the lines of the dictionary file on disk (each ends in "\n")
    found,          \* whether io.open finds the file
    FINpos,         \* number of lines FIN.readline() has consumed
    FINopen,        \* the stream FIN is open
    FINnline,       \* global FINnline
    line,           \* local `line` of read_FIN_line / of the calling compiler (FINline)
    pc,             \* control position
    ret,            \* which loop of the caller read_FIN_line returns to
    err,            \* the exception that ended the compiler, "none" otherwise
    out,            \* history: the lines read_FIN_line has returned so far
    DiscardList,    \* PETRglobals.DiscardList
    ActorDict,      \* PETRglobals.ActorDict: keyword -> list of phrase lists
    ActorCodes,     \* PETRglobals.ActorCodes: list of code lists (index 0 is ActorCodes[1])
    codeindex,      \* local codeindex of read_actor_dictionary
    curlist,        \* local curlist of read_actor_dictionary
    rootactor,      \* local rootactor of read_actor_dictionary (Unbound until assigned)
    WriteActorRoot, \* PETRglobals.WriteActorRoot
    AgentDict,      \* PETRglobals.AgentDict: keyword -> list of phrase lists
    subdict,        \* global subdict: marker name -> list of substitutes
    plural,         \* local plural of read_agent_dictionary (Unbound until assigned)
    VerbDict,       \* PETRglobals.VerbDict
    theverb,        \* global theverb: the anchor of the current block
    verb,           \* global verb: the verb text of the current line
    newblock,       \* local newblock of read_verb_dictionary
    primarycode,    \* local primarycode of read_verb_dictionary (Unbound until assigned)
    noplural,       \* local noplural of read_verb_dictionary
    paragr,         \* local paragr of _sentence_segmenter: the text not yet split off
    searchstart,    \* local searchstart of _sentence_segmenter
    sentlist,       \* local sentlist of _sentence_segmenter
    cuts,           \* history: the texts up to each accepted terminator, kept or not
    dstr,           \* the argument datestring of dstr_to_ordate
    ordate,         \* what dstr_to_ordate gave: [ok, val], ok = FALSE for DateError
    pass,           \* 1 during the first compilation of the file, 2 during the second
    firstresult     \* history: the structures the first compilation produced

finvars == <<file, found, FINpos, FINopen, FINnline, line, pc, ret, err, out>>
actorvars == <<ActorDict, ActorCodes, codeindex, curlist, rootactor, WriteActorRoot>>
vars == <<file, found, FINpos, FINopen, FINnline, line, pc, ret, err, out, DiscardList,
          ActorDict, ActorCodes, codeindex, curlist, rootactor, WriteActorRoot,
          AgentDict, subdict, plural,
          VerbDict, theverb, verb, newblock, primarycode, noplural,
          paragr, searchstart, sentlist, cuts, dstr, ordate, pass, firstresult>>
finfields == <<file, found, FINpos, FINopen, FINnline, line, ret, err, out>>
segvars == <<paragr, searchstart, sentlist, cuts>>
datevars == <<dstr, ordate>>
twicevars == <<pass, firstresult>>
verbvars == <<VerbDict, theverb, verb, newblock, primarycode, noplural>>
agentvars == <<AgentDict, subdict, plural>>

(***************************************************************************)
(* Bounds                                                                  *)
(***************************************************************************)
MaxFileLen == 3     \* lines per file in the line-source specification
MaxNline == 6       \* FINnline saturates here (the unclosed-comment loop counts forever)
MaxActorLen == 3    \* lines per actor file
MaxRestrictions == 2 \* tab-indented lines per cluster of a cluster file
MaxSeriesLen == 2   \* lines per file when two actor files are compiled in a row
MaxAgentLen == 3    \* lines per agent file
MaxVerbLen == 3     \* lines per verb file
MaxBlockLen == 3    \* lines after the first block header of a verb file
MaxFormLen == 1     \* verb lines between the block header and the synset of a verb file
MaxPatternLen == 3  \* lines after the block header of a verb file of pattern lines

(***************************************************************************)
(* Python string primitives on sequences of characters                     *)
(***************************************************************************)
Min2(a, b) == IF a <= b THEN a ELSE b
Max2(a, b) == IF a >= b THEN a ELSE b
SetMin(S) == CHOOSE x \in S : \A y \in S : x <= y
SetMax(S) == CHOOSE x \in S : \A y \in S : x >= y

\* normalisation of a slice bound, as Python does for s[a:b]
PyIdx(i, n) == IF i < 0 THEN Max2(i + n, 0) ELSE Min2(i, n)

\* s[a:b]
Slice(s, a, b) ==
    LET lo == PyIdx(a, Len(s))
        hi == PyIdx(b, Len(s))
    IN  IF lo >= hi THEN <<>> ELSE SubSeq(s, lo + 1, hi)

\* s[a:]
From(s, a) == Slice(s, a, Len(s))

\* s[:b]
UpTo(s, b) == Slice(s, 0, b)

\* s[i] for an index the code has made sure exists (i may be negative)
At(s, i) == IF i < 0 THEN s[Len(s) + i + 1] ELSE s[i + 1]

\* s.find(sub, start): 0-based index of the first occurrence at or after start, -1 if none
FindFrom(s, sub, start) ==
    LET cands == {i \in start..(Len(s) - Len(sub)) : SubSeq(s, i + 1, i + Len(sub)) = sub}
    IN  IF cands = {} THEN -1 ELSE SetMin(cands)

Find(s, sub) == FindFrom(s, sub, 0)

\* sub in s
In(sub, s) == Find(s, sub) >= 0

\* s.partition(sep)
Partition(s, sep) ==
    LET i == Find(s, sep)
    IN  IF i < 0 THEN <<s, <<>>, <<>>>>
        ELSE <<UpTo(s, i), sep, From(s, i + Len(sep))>>

IsSpace(c) == c \in {" ", "\t", "\n", "\r"}
IsDigit(c) == c \in {"0", "1", "2", "3", "4", "5", "6", "7", "8", "9"}

LStrip(s) ==
    LET ns == {i \in 1..Len(s) : ~IsSpace(s[i])}
    IN  IF ns = {} THEN <<>> ELSE SubSeq(s, SetMin(ns), Len(s))

RStrip(s) ==
    LET ns == {i \in 1..Len(s) : ~IsSpace(s[i])}
    IN  IF ns = {} THEN <<>> ELSE SubSeq(s, 1, SetMax(ns))

Strip(s) == LStrip(RStrip(s))

StartsWith(s, p) == Len(s) >= Len(p) /\ SubSeq(s, 1, Len(p)) = p

\* s.split(): the maximal runs of non-blank characters
RECURSIVE Split(_)
Split(s) ==
    LET t == LStrip(s)
        sp == {i \in 1..Len(t) : IsSpace(t[i])}
    IN  IF t = <<>> THEN <<>>
        ELSE IF sp = {} THEN <<t>>
        ELSE <<SubSeq(t, 1, SetMin(sp) - 1)>> \o Split(SubSeq(t, SetMin(sp), Len(t)))

\* s.split(sep) for a one-character sep: always at least one piece
RECURSIVE SplitOn(_, _)
SplitOn(s, sep) ==
    LET i == Find(s, sep)
    IN  IF i < 0 THEN <<s>>
        ELSE <<UpTo(s, i)>> \o SplitOn(From(s, i + Len(sep)), sep)

\* s.replace(old, new) for a non-empty old
RECURSIVE Replace(_, _, _)
Replace(s, old, new) ==
    LET i == Find(s, old)
    IN  IF i < 0 THEN s
        ELSE UpTo(s, i) \o new \o Replace(From(s, i + Len(old)), old, new)

LowerCase == <<"a", "b", "c", "d", "e", "f", "g", "h", "i", "j", "k", "l", "m",
               "n", "o", "p", "q", "r", "s", "t", "u", "v", "w", "x", "y", "z">>
UpperCase == <<"A", "B", "C", "D", "E", "F", "G", "H", "I", "J", "K", "L", "M",
               "N", "O", "P", "Q", "R", "S", "T", "U", "V", "W", "X", "Y", "Z">>

\* s.upper()
Upper(s) ==
    [i \in 1..Len(s) |->
        IF \E k \in 1..26 : LowerCase[k] = s[i]
        THEN UpperCase[CHOOSE k \in 1..26 : LowerCase[k] = s[i]]
        ELSE s[i]]

(***************************************************************************)
(* Python dicts                                                            *)
(***************************************************************************)
EmptyDict == <<>>

\* d[k] = v
DictSet(d, k, v) == [x \in (DOMAIN d) \cup {k} |-> IF x = k THEN v ELSE d[x]]

\* the dict after d.setdefault(k, {})
SetDefault(d, k) == IF k \in DOMAIN d THEN d ELSE DictSet(d, k, EmptyDict)

\* a string stored as a dict value
Str(s) == DictSet(EmptyDict, <<"$">>, s)
UnStr(b) == b[<<"$">>]

\* the dict d after  l = d; for k in path: l = l.setdefault(k, {})
RECURSIVE PathTouch(_, _)
PathTouch(d, path) ==
    IF path = <<>> THEN d
    ELSE DictSet(d, Head(path),
                 PathTouch(SetDefault(d, Head(path))[Head(path)], Tail(path)))

\* the dict d after  l = d; for k in path: l = l.setdefault(k, {});  l[key] = v
RECURSIVE PathPut(_, _, _, _)
PathPut(d, path, key, v) ==
    IF path = <<>> THEN DictSet(d, key, v)
    ELSE DictSet(d, Head(path),
                 PathPut(SetDefault(d, Head(path))[Head(path)], Tail(path), key, v))

\* a Python local that has not been assigned yet
Unbound == <<"<unbound>">>

\* the files of at most n lines drawn from the set L
Files(L, n) == UNION {[1..k -> L] : k \in 0..n}

(***************************************************************************)
(* The FIN line source                                                     *)
(***************************************************************************)
\* what the k-th FIN.readline() from here returns: the next line, '' at end of file
RawAt(k) == IF FINpos + k <= Len(file) THEN file[FINpos + k] ELSE <<>>

\* the stream and the line counter after k calls of FIN.readline(), each
\* followed by FINnline += 1
Consume(k) ==
    /\ FINpos' = Min2(FINpos + k, Len(file))
    /\ FINnline' = Min2(FINnline + k, MaxNline)

\* a line read_FIN_line skips without looking further
SimpleSkip(l) ==
    \/ l[1] = "#"
    \/ l[1] = "\n"
    \/ UpTo(l, 2) = <<"<", "!">>
    \/ Len(Strip(l)) = 0

CommentOpen == <<"<", "!", "-", "-">>
CommentClose == <<"-", "-", ">">>

\* the line without its inline '#' comment
CutHash(l) == IF In(<<"#">>, l) THEN UpTo(l, Find(l, <<"#">>)) ELSE l

\* the line without its first <!-- ... --> span
CutComment(l) ==
    LET pline == Partition(l, CommentOpen)
    IN  pline[1] \o From(pline[3], Find(pline[3], CommentClose) + 3)

\* open_FIN followed by the caller's first read_FIN_line(): a missing file
\* terminates the process, a stream just opened gives the first line of the file
open_FIN ==
    /\ pc = "start"
    /\ IF found
       THEN /\ FINopen' = TRUE
            /\ FINnline' = Min2(1, MaxNline)
            /\ FINpos' = Min2(1, Len(file))
            /\ line' = IF Len(file) > 0 THEN file[1] ELSE <<>>
            /\ pc' = "rd_loop"
            /\ UNCHANGED err
       ELSE /\ pc' = "exited"
            /\ err' = "SystemExit"
            /\ UNCHANGED <<FINopen, FINnline, FINpos, line>>
    /\ UNCHANGED <<file, found, ret, out>>

\* one iteration of the `while True` loop of read_FIN_line
read_FIN_line ==
    /\ pc = "rd_loop"
    /\ IF Len(line) = 0
       THEN \* end of file: return ''
            /\ pc' = "loop"
            /\ out' = Append(out, line)
            /\ UNCHANGED <<line, FINpos, FINnline>>
       ELSE IF SimpleSkip(line)
       THEN /\ line' = RawAt(1)
            /\ Consume(1)
            /\ UNCHANGED <<pc, out>>
       ELSE LET l1 == CutHash(line) IN
            IF In(CommentOpen, l1) /\ ~In(CommentClose, l1)
            THEN \* multi-line comment: enter the inner while loop
                 /\ line' = l1
                 /\ pc' = "rd_scan"
                 /\ UNCHANGED <<FINpos, FINnline, out>>
            ELSE LET l2 == IF In(CommentOpen, l1) THEN CutComment(l1) ELSE l1 IN
                 IF Len(Strip(l2)) > 0
                 THEN /\ line' = l2
                      /\ pc' = "loop"
                      /\ out' = Append(out, l2)
                      /\ UNCHANGED <<FINpos, FINnline>>
                 ELSE /\ line' = RawAt(1)
                      /\ Consume(1)
                      /\ UNCHANGED <<pc, out>>
    /\ UNCHANGED <<file, found, FINopen, ret, err>>

\* one test of `while ('-->' not in line)` inside read_FIN_line, with the
\* statements that follow the loop when it ends
read_FIN_comment ==
    /\ pc = "rd_scan"
    /\ IF ~In(CommentClose, line)
       THEN /\ line' = RawAt(1)
            /\ Consume(1)
            /\ UNCHANGED <<pc, out>>
       ELSE \* the line after the closing line is taken as it is
            IF Len(Strip(RawAt(1))) > 0
            THEN /\ line' = RawAt(1)
                 /\ Consume(1)
                 /\ pc' = "loop"
                 /\ out' = Append(out, RawAt(1))
            ELSE /\ line' = RawAt(2)
                 /\ Consume(2)
                 /\ pc' = "rd_loop"
                 /\ UNCHANGED out
    /\ UNCHANGED <<file, found, FINopen, ret, err>>

\* the caller's next read_FIN_line(): the first FIN.readline() of the call
CallRead ==
    /\ line' = RawAt(1)
    /\ Consume(1)
    /\ pc' = "rd_loop"

\* close_FIN at the end of a compiler
close_FIN ==
    /\ FINopen' = FALSE
    /\ pc' = "done"
    /\ UNCHANGED <<FINpos, FINnline, line>>

FINInit ==
    /\ found \in BOOLEAN
    /\ FINpos = 0
    /\ FINopen = FALSE
    /\ FINnline = 0
    /\ line = <<>>
    /\ pc = "start"
    /\ ret = "main"
    /\ err = "none"
    /\ out = <<>>

(***************************************************************************)
(* read_discard_list: the plainest caller of the line source               *)
(***************************************************************************)
\* the words of one discard line: the phrase and its '+' or '$' mark
DiscardTarg(l) ==
    LET l1 == CutHash(l)
        t == Strip(l1)
    IN  IF StartsWith(t, <<"+">>)
        THEN Split(Upper(From(t, 1)) \o <<" ", "+">>)
        ELSE Split(Upper(t) \o <<" ", "$">>)

read_discard_list ==
    /\ pc = "loop"
    /\ IF Len(line) > 0
       THEN /\ DiscardList' = PathTouch(DiscardList, DiscardTarg(line))
            /\ CallRead
            /\ UNCHANGED FINopen
       ELSE /\ close_FIN
            /\ UNCHANGED DiscardList
    /\ UNCHANGED <<file, found, ret, err, out>>

(***************************************************************************)
(* dstr_to_ordate                                                          *)
(***************************************************************************)
\* the value of a string of digits
RECURSIVE DigitsVal(_)
DigitsVal(s) ==
    IF s = <<>> THEN 0
    ELSE 10 * DigitsVal(SubSeq(s, 1, Len(s) - 1))
         + (CHOOSE d \in 0..9 : <<"0", "1", "2", "3", "4", "5", "6", "7", "8", "9">>[d + 1] = s[Len(s)])

\* int(s): blanks around the number and one sign are accepted; anything else
\* is a ValueError
PyInt(s) ==
    LET t == Strip(s)
        signed == t # <<>> /\ t[1] \in {"+", "-"}
        digs == IF signed THEN Tail(t) ELSE t
    IN  IF digs # <<>> /\ \A i \in 1..Len(digs) : IsDigit(digs[i])
        THEN [ok |-> TRUE,
              val |-> IF signed /\ t[1] = "-" THEN 0 - DigitsVal(digs) ELSE DigitsVal(digs)]
        ELSE [ok |-> FALSE, val |-> 0]

\* LastDay without the century rule: every fourth year has a 29 February
LastDay_NoCentury(year, month) ==
    IF month = 2
    THEN IF year % 4 = 0 THEN 29 ELSE 28
    ELSE IF month \in {4, 6, 9, 11} THEN 30
    ELSE 31

\* the last day dstr_to_ordate accepts in a month
LastDay(year, month) ==
    IF month = 2
    THEN IF year % 400 = 0 THEN 29
         ELSE IF year % 100 = 0 THEN 28
         ELSE IF year % 4 = 0 THEN 29
         ELSE 28
    ELSE IF month \in {4, 6, 9, 11} THEN 30
    ELSE 31

\* OrdateOf without the adjustment to the ANSI date: the pure Julian date
OrdateOf_JulianDay(year, month, day) ==
    LET adj == IF month < 3 THEN 1 ELSE 0
        yr == year + 4800 - adj
        mo == month + (12 * adj) - 3
    IN  day + ((153 * mo + 2) \div 5) + 365 * yr
        + (yr \div 4) - (yr \div 100) + (yr \div 400) - 32045

\* OrdateOf with January and February not moved to the end of the
\* preceding year's months
OrdateOf_NoMonthShift(year, month, day) ==
    LET adj == IF month < 3 THEN 1 ELSE 0
        yr == year + 4800 - adj
        mo == month - 3
    IN  day + ((153 * mo + 2) \div 5) + 365 * yr
        + (yr \div 4) - (yr \div 100) + (yr \div 400) - 32045 - 2305813

\* the day count of an accepted date
OrdateOf(year, month, day) ==
    LET adj == IF month < 3 THEN 1 ELSE 0
        yr == year + 4800 - adj
        mo == month + (12 * adj) - 3
    IN  day + ((153 * mo + 2) \div 5) + 365 * yr
        + (yr \div 4) - (yr \div 100) + (yr \div 400) - 32045 - 2305813

\* dstr_to_ordate with the two-digit years up to 30 not included in 20YY
dstr_to_ordate_Pivot(datestring) ==
    LET long == Len(datestring) > 7
        y == IF long THEN PyInt(UpTo(datestring, 4)) ELSE PyInt(UpTo(datestring, 2))
        m == IF long THEN PyInt(Slice(datestring, 4, 6)) ELSE PyInt(Slice(datestring, 2, 4))
        d == IF long THEN PyInt(Slice(datestring, 6, 8)) ELSE PyInt(Slice(datestring, 4, 6))
        year == IF long THEN y.val ELSE IF y.val < 30 THEN y.val + 2000 ELSE y.val + 1900
    IN  IF ~(y.ok /\ m.ok /\ d.ok) THEN [ok |-> FALSE, val |-> 0]
        ELSE IF d.val <= 0 THEN [ok |-> FALSE, val |-> 0]
        ELSE IF d.val > LastDay(year, m.val) THEN [ok |-> FALSE, val |-> 0]
        ELSE [ok |-> TRUE, val |-> OrdateOf(year, m.val, d.val)]

\* ok = FALSE stands for DateError
dstr_to_ordate(datestring) ==
    LET long == Len(datestring) > 7
        y == IF long THEN PyInt(UpTo(datestring, 4)) ELSE PyInt(UpTo(datestring, 2))
        m == IF long THEN PyInt(Slice(datestring, 4, 6)) ELSE PyInt(Slice(datestring, 2, 4))
        d == IF long THEN PyInt(Slice(datestring, 6, 8)) ELSE PyInt(Slice(datestring, 4, 6))
        year == IF long THEN y.val ELSE IF y.val <= 30 THEN y.val + 2000 ELSE y.val + 1900
    IN  IF ~(y.ok /\ m.ok /\ d.ok) THEN [ok |-> FALSE, val |-> 0]
        ELSE IF d.val <= 0 THEN [ok |-> FALSE, val |-> 0]
        ELSE IF d.val > LastDay(year, m.val) THEN [ok |-> FALSE, val |-> 0]
        ELSE [ok |-> TRUE, val |-> OrdateOf(year, m.val, d.val)]

\* a call of dstr_to_ordate(dstr)
call_dstr_to_ordate ==
    /\ pc = "date_call"
    /\ ordate' = dstr_to_ordate(dstr)
    /\ pc' = "date_done"
    /\ UNCHANGED dstr

(***************************************************************************)
(* read_actor_dictionary                                                   *)
(***************************************************************************)
\* the list of (word, connector) pairs of a phrase, from position start on
RECURSIVE NounListFrom(_, _)
NounListFrom(nounst, start) ==
    IF start >= Len(nounst) THEN <<>>
    ELSE LET maxlen == Len(nounst) + 1
             sp == FindFrom(nounst, <<" ">>, start)
             un == FindFrom(nounst, <<"_">>, start)
             spfind == IF sp = -1 THEN maxlen ELSE sp
             unfind == IF un = -1 THEN maxlen ELSE un
         IN  IF unfind < spfind
             THEN <<<<Slice(nounst, start, unfind), <<"_">>>>>>
                  \o NounListFrom(nounst, unfind + 1)
             ELSE <<<<Slice(nounst, start, spfind), <<" ">>>>>>
                  \o NounListFrom(nounst, spfind + 1)

make_noun_list(nounst) == NounListFrom(nounst, 0)

\* the phrase list stored for a phrase: what it points to (a code-list index
\* for actors, a code for agents), the connector after the keyword, and the
\* remaining (word, connector) pairs
PhraseList(first, nounlist) == <<first, nounlist[1][2]>> \o Tail(nounlist)

\* dict[keyword].append(phlist), or dict[keyword] = [phlist] for a new keyword
StorePhrase(dict, first, nounst) ==
    LET nounlist == make_noun_list(nounst)
        keyword == nounlist[1][1]
        phlist == PhraseList(first, nounlist)
    IN  IF keyword \in DOMAIN dict
        THEN DictSet(dict, keyword, Append(dict[keyword], phlist))
        ELSE DictSet(dict, keyword, <<phlist>>)

\* entries of a code list
Unrestricted(code) == [code |-> code]
Before(ord, code) == [tag |-> 0, ord |-> ord, code |-> code]
After(ord, code) == [tag |-> 1, ord |-> ord, code |-> code]
Interval(ord1, ord2, code) == [tag |-> 2, ord1 |-> ord1, ord2 |-> ord2, code |-> code]
RootText(actor) == [root |-> actor]

\* the all-digit string looked for after < or >
RestrictionDate(rest) ==
    LET n == Len(rest)
        kas == {k \in 1..(n - 1) : IsDigit(At(rest, k))}
        ka == IF kas = {} THEN Max2(1, n) ELSE SetMin(kas)
        kbs == {k \in (ka + 6)..(n - 1) : ~IsDigit(At(rest, k))}
        kb == IF kbs = {} THEN Max2(ka + 6, n) ELSE SetMin(kbs)
    IN  Slice(rest, ka, kb)

\* DateRestriction that takes a line whose date raises DateError as a line
\* that holds only a code
DateRestriction_Default(l) ==
    LET brack == Find(l, <<"[">>)
        part == Partition(Strip(From(l, brack + 1)), <<" ">>)
        code == Strip(part[1])
        rest == LStrip(part[3])
        ord == dstr_to_ordate(RestrictionDate(rest))
        dpart == Partition(rest, <<"-">>)
        ord1 == dstr_to_ordate(Strip(dpart[1]))
        ord2 == dstr_to_ordate(Strip(Partition(dpart[3], <<"]">>)[1]))
        none == [skip |-> TRUE, entry |-> Unrestricted(<<>>)]
        default == [skip |-> FALSE, entry |-> Unrestricted(code)]
    IN  IF brack < 0 THEN none
        ELSE IF In(<<"<">>, rest) \/ In(<<">">>, rest)
        THEN IF ~ord.ok THEN default
             ELSE IF rest[1] = "<"
             THEN [skip |-> FALSE, entry |-> Before(ord.val, code)]
             ELSE [skip |-> FALSE, entry |-> After(ord.val, code)]
        ELSE IF In(<<"-">>, rest)
        THEN IF ~ord1.ok \/ ~ord2.ok THEN default
             ELSE IF ord2.val < ord1.val THEN none
             ELSE [skip |-> FALSE, entry |-> Interval(ord1.val, ord2.val, code)]
        ELSE [skip |-> FALSE, entry |-> Unrestricted(UpTo(code, Find(code, <<"]">>)))]

\* DateRestriction that stores an interval whose end is before its start with
\* the two ordinals exchanged
DateRestriction_Swap(l) ==
    LET brack == Find(l, <<"[">>)
        part == Partition(Strip(From(l, brack + 1)), <<" ">>)
        code == Strip(part[1])
        rest == LStrip(part[3])
        ord == dstr_to_ordate(RestrictionDate(rest))
        dpart == Partition(rest, <<"-">>)
        ord1 == dstr_to_ordate(Strip(dpart[1]))
        ord2 == dstr_to_ordate(Strip(Partition(dpart[3], <<"]">>)[1]))
        none == [skip |-> TRUE, entry |-> Unrestricted(<<>>)]
    IN  IF brack < 0 THEN none
        ELSE IF In(<<"<">>, rest) \/ In(<<">">>, rest)
        THEN IF ~ord.ok THEN none
             ELSE IF rest[1] = "<"
             THEN [skip |-> FALSE, entry |-> Before(ord.val, code)]
             ELSE [skip |-> FALSE, entry |-> After(ord.val, code)]
        ELSE IF In(<<"-">>, rest)
        THEN IF ~ord1.ok \/ ~ord2.ok THEN none
             ELSE IF ord2.val < ord1.val
             THEN [skip |-> FALSE, entry |-> Interval(ord2.val, ord1.val, code)]
             ELSE [skip |-> FALSE, entry |-> Interval(ord1.val, ord2.val, code)]
        ELSE [skip |-> FALSE, entry |-> Unrestricted(UpTo(code, Find(code, <<"]">>)))]

\* a tab-indented line: skip = TRUE when the line is logged and dropped,
\* otherwise entry is what curlist.append receives
DateRestriction(l) ==
    LET brack == Find(l, <<"[">>)
        part == Partition(Strip(From(l, brack + 1)), <<" ">>)
        code == Strip(part[1])
        rest == LStrip(part[3])
        ord == dstr_to_ordate(RestrictionDate(rest))
        dpart == Partition(rest, <<"-">>)
        ord1 == dstr_to_ordate(Strip(dpart[1]))
        ord2 == dstr_to_ordate(Strip(Partition(dpart[3], <<"]">>)[1]))
        none == [skip |-> TRUE, entry |-> Unrestricted(<<>>)]
    IN  IF brack < 0 THEN none
        ELSE IF In(<<"<">>, rest) \/ In(<<">">>, rest)
        THEN IF ~ord.ok THEN none
             ELSE IF rest[1] = "<"
             THEN [skip |-> FALSE, entry |-> Before(ord.val, code)]
             ELSE [skip |-> FALSE, entry |-> After(ord.val, code)]
        ELSE IF In(<<"-">>, rest)
        THEN IF ~ord1.ok \/ ~ord2.ok THEN none
             ELSE IF ord2.val < ord1.val THEN none
             ELSE [skip |-> FALSE, entry |-> Interval(ord1.val, ord2.val, code)]
        ELSE [skip |-> FALSE, entry |-> Unrestricted(UpTo(code, Find(code, <<"]">>)))]

\* the text of the phrase on a synonym line
SynonymActor(l) == Strip(From(Partition(l, <<";">>)[1], 1)) \o <<" ">>

\* the text of the phrase on a primary line
PrimaryActor(l) ==
    IF In(<<"[">>, l)
    THEN Strip(Partition(l, <<"[">>)[1]) \o <<" ">>
    ELSE Strip(Partition(l, <<";">>)[1]) \o <<" ">>

\* the code list of the previous cluster as it is stored when a primary line
\* is met
FinishedList == IF WriteActorRoot THEN Append(curlist, RootText(rootactor)) ELSE curlist

\* OpeningList with the code of the primary line left out: the slip of
\* resetting curlist without the append that follows it
OpeningList_NoCode(l) == <<>>

\* curlist at the start of the cluster a primary line opens
OpeningList(l) ==
    IF In(<<"[">>, l)
    THEN <<Unrestricted(Strip(Partition(Partition(l, <<"[">>)[3], <<"]">>)[1]))>>
    ELSE <<>>

StopSentinel == <<"-", "-", "-", "S", "T", "O", "P", "-", "-", "-">>

\* read_actor_dictionary in which a synonym line closes the code list of the
\* cluster as a primary line does
read_actor_dictionary_SynonymCloses ==
    /\ pc = "loop"
    /\ IF Len(line) = 0 \/ In(StopSentinel, line)
       THEN /\ close_FIN
            /\ UNCHANGED <<err, ActorDict, ActorCodes, codeindex, curlist, rootactor>>
       ELSE IF line[1] = "\t"
       THEN /\ curlist' = IF DateRestriction(line).skip THEN curlist
                          ELSE Append(curlist, DateRestriction(line).entry)
            /\ CallRead
            /\ UNCHANGED <<FINopen, err, ActorDict, ActorCodes, codeindex, rootactor>>
       ELSE IF line[1] = "+"
       THEN LET codes == IF Len(curlist) > 0 THEN Append(ActorCodes, curlist)
                         ELSE ActorCodes
                index == IF Len(curlist) > 0 THEN Len(codes) ELSE codeindex
            IN  /\ ActorCodes' = codes
                /\ codeindex' = index
                /\ curlist' = <<>>
                /\ ActorDict' = StorePhrase(ActorDict, index, SynonymActor(line))
                /\ CallRead
                /\ UNCHANGED <<FINopen, err, rootactor>>
       ELSE IF Len(curlist) > 0 /\ WriteActorRoot /\ rootactor = Unbound
       THEN /\ pc' = "crashed"
            /\ err' = "UnboundLocalError"
            /\ UNCHANGED <<FINopen, FINpos, FINnline, line,
                           ActorDict, ActorCodes, codeindex, curlist, rootactor>>
       ELSE LET codes == IF Len(curlist) > 0 THEN Append(ActorCodes, FinishedList)
                         ELSE ActorCodes
                index == IF Len(curlist) > 0 THEN Len(codes) ELSE codeindex
            IN  /\ ActorCodes' = codes
                /\ codeindex' = index
                /\ curlist' = OpeningList(line)
                /\ rootactor' = PrimaryActor(line)
                /\ ActorDict' = StorePhrase(ActorDict, index, PrimaryActor(line))
                /\ CallRead
                /\ UNCHANGED <<FINopen, err>>
    /\ UNCHANGED <<file, found, ret, out, WriteActorRoot>>

\* read_actor_dictionary without the test for the sentinel
read_actor_dictionary_NoStop ==
    /\ pc = "loop"
    /\ IF Len(line) = 0
       THEN /\ close_FIN
            /\ UNCHANGED <<err, ActorDict, ActorCodes, codeindex, curlist, rootactor>>
       ELSE IF line[1] = "\t"
       THEN /\ curlist' = IF DateRestriction(line).skip THEN curlist
                          ELSE Append(curlist, DateRestriction(line).entry)
            /\ CallRead
            /\ UNCHANGED <<FINopen, err, ActorDict, ActorCodes, codeindex, rootactor>>
       ELSE IF line[1] = "+"
       THEN /\ ActorDict' = StorePhrase(ActorDict, codeindex, SynonymActor(line))
            /\ CallRead
            /\ UNCHANGED <<FINopen, err, ActorCodes, codeindex, curlist, rootactor>>
       ELSE IF Len(curlist) > 0 /\ WriteActorRoot /\ rootactor = Unbound
       THEN /\ pc' = "crashed"
            /\ err' = "UnboundLocalError"
            /\ UNCHANGED <<FINopen, FINpos, FINnline, line,
                           ActorDict, ActorCodes, codeindex, curlist, rootactor>>
       ELSE LET codes == IF Len(curlist) > 0 THEN Append(ActorCodes, FinishedList)
                         ELSE ActorCodes
                index == IF Len(curlist) > 0 THEN Len(codes) ELSE codeindex
            IN  /\ ActorCodes' = codes
                /\ codeindex' = index
                /\ curlist' = OpeningList(line)
                /\ rootactor' = PrimaryActor(line)
                /\ ActorDict' = StorePhrase(ActorDict, index, PrimaryActor(line))
                /\ CallRead
                /\ UNCHANGED <<FINopen, err>>
    /\ UNCHANGED <<file, found, ret, out, WriteActorRoot>>

\* the loop test of read_actor_dictionary and the body for one line, up to
\* the next read_FIN_line()
read_actor_dictionary ==
    /\ pc = "loop"
    /\ IF Len(line) = 0 \/ In(StopSentinel, line)
       THEN /\ close_FIN
            /\ UNCHANGED <<err, ActorDict, ActorCodes, codeindex, curlist, rootactor>>
       ELSE IF line[1] = "\t"
       THEN /\ curlist' = IF DateRestriction(line).skip THEN curlist
                          ELSE Append(curlist, DateRestriction(line).entry)
            /\ CallRead
            /\ UNCHANGED <<FINopen, err, ActorDict, ActorCodes, codeindex, rootactor>>
       ELSE IF line[1] = "+"
       THEN /\ ActorDict' = StorePhrase(ActorDict, codeindex, SynonymActor(line))
            /\ CallRead
            /\ UNCHANGED <<FINopen, err, ActorCodes, codeindex, curlist, rootactor>>
       ELSE IF Len(curlist) > 0 /\ WriteActorRoot /\ rootactor = Unbound
       THEN \* curlist.append(rootactor) before any primary line has set it
            /\ pc' = "crashed"
            /\ err' = "UnboundLocalError"
            /\ UNCHANGED <<FINopen, FINpos, FINnline, line,
                           ActorDict, ActorCodes, codeindex, curlist, rootactor>>
       ELSE LET codes == IF Len(curlist) > 0 THEN Append(ActorCodes, FinishedList)
                         ELSE ActorCodes
                index == IF Len(curlist) > 0 THEN Len(codes) ELSE codeindex
            IN  /\ ActorCodes' = codes
                /\ codeindex' = index
                /\ curlist' = OpeningList(line)
                /\ rootactor' = PrimaryActor(line)
                /\ ActorDict' = StorePhrase(ActorDict, index, PrimaryActor(line))
                /\ CallRead
                /\ UNCHANGED <<FINopen, err>>
    /\ UNCHANGED <<file, found, ret, out, WriteActorRoot>>

(***************************************************************************)
(* read_agent_dictionary                                                   *)
(***************************************************************************)
\* AgentDict after store_agent(nounst, code)
store_agent(dict, nounst, code) == StorePhrase(dict, code, nounst)

\* the items of a list, each stripped
StripAll(items) == [i \in 1..Len(items) |-> Strip(items[i])]

\* subdict after define_marker(line)
define_marker(sub, l) ==
    LET first == Find(l, <<"!">>)
        ka == first + 1
        marker == Slice(l, ka, FindFrom(l, <<"!">>, ka))
        loclist == Strip(From(l, FindFrom(l, <<"=">>, ka) + 1))
    IN  IF Find(From(l, first + 1), <<"!">>) < 0 \/ Find(From(l, first), <<"=">>) < 0
        THEN sub
        ELSE DictSet(sub, marker, StripAll(SplitOn(loclist, <<",">>)))

\* AgentDict after store_agent(prefix + subst + suffix, code) for each subst in substs
RECURSIVE StoreEach(_, _, _, _, _)
StoreEach(dict, prefix, substs, suffix, code) ==
    IF substs = <<>> THEN dict
    ELSE StoreEach(store_agent(dict, prefix \o Head(substs) \o suffix, code),
                   prefix, Tail(substs), suffix, code)

\* AgentDict after store_marker(agent, code)
store_marker(dict, sub, agent, code) ==
    LET part == Partition(agent, <<"!">>)
        part2 == Partition(part[3], <<"!">>)
    IN  IF Find(From(agent, Find(agent, <<"!">>) + 1), <<"!">>) < 0 THEN dict
        ELSE IF part2[1] \notin DOMAIN sub THEN dict
        ELSE StoreEach(dict, part[1], sub[part2[1]], part2[3], code)

\* RegularPlural without the rule for a final S
RegularPlural_NoES(agent) ==
    IF At(agent, -2) = "Y" THEN UpTo(agent, -2) \o <<"I", "E", "S">>
    ELSE UpTo(agent, -1) \o <<"S">>

\* the regular plural of an agent phrase that ends in its blank
RegularPlural(agent) ==
    IF At(agent, -2) = "Y" THEN UpTo(agent, -2) \o <<"I", "E", "S">>
    ELSE IF At(agent, -2) = "S" THEN UpTo(agent, -1) \o <<"E", "S">>
    ELSE UpTo(agent, -1) \o <<"S">>

\* read_agent_dictionary that gives a line with braces the regular plural of
\* its phrase
read_agent_dictionary_AutomaticPlural ==
    /\ pc = "loop"
    /\ IF Len(line) = 0
       THEN /\ close_FIN
            /\ UNCHANGED <<err, AgentDict, subdict, plural>>
       ELSE IF In(<<"!">>, line) /\ In(<<"=">>, line)
       THEN /\ subdict' = define_marker(subdict, line)
            /\ CallRead
            /\ UNCHANGED <<FINopen, err, AgentDict, plural>>
       ELSE IF ~In(<<"[">>, line)
       THEN /\ CallRead
            /\ UNCHANGED <<FINopen, err, AgentDict, subdict, plural>>
       ELSE LET part == Partition(line, <<"[">>)
                code == Strip(Partition(part[3], <<"]">>)[1])
                agent0 == Strip(part[1]) \o <<" ">>
                marker == In(<<"!">>, part[1])
                braces == ~marker /\ In(<<"{">>, part[1])
                agent == IF braces
                         THEN Strip(UpTo(part[1], Find(part[1], <<"{">>))) \o <<" ">>
                         ELSE agent0
                newplural ==
                    IF marker THEN plural
                    ELSE IF braces
                    THEN RegularPlural(agent)
                    ELSE RegularPlural(agent0)
                dict1 == IF marker THEN store_marker(AgentDict, subdict, agent0, code)
                         ELSE AgentDict
                dict2 == store_agent(dict1, agent, code)
            IN  IF braces /\ ~In(<<"}">>, part[1])
                THEN /\ CallRead
                     /\ UNCHANGED <<FINopen, err, AgentDict, subdict, plural>>
                ELSE IF ~marker /\ ~braces /\ Len(agent0) < 2
                THEN \* agent[-2] of a phrase that is only its blank
                     /\ pc' = "crashed"
                     /\ err' = "IndexError"
                     /\ UNCHANGED <<FINopen, FINpos, FINnline, line,
                                    AgentDict, subdict, plural>>
                ELSE IF newplural = Unbound
                THEN \* len(plural) before any line has set plural
                     /\ AgentDict' = dict2
                     /\ pc' = "crashed"
                     /\ err' = "UnboundLocalError"
                     /\ UNCHANGED <<FINopen, FINpos, FINnline, line, subdict, plural>>
                ELSE /\ AgentDict' = IF Len(newplural) > 0
                                     THEN store_agent(dict2, newplural \o <<" ">>, code)
                                     ELSE dict2
                     /\ plural' = newplural
                     /\ CallRead
                     /\ UNCHANGED <<FINopen, err, subdict>>
    /\ UNCHANGED <<file, found, ret, out>>

\* the loop test of read_agent_dictionary and the body for one line, up to
\* the next read_FIN_line()
read_agent_dictionary ==
    /\ pc = "loop"
    /\ IF Len(line) = 0
       THEN /\ close_FIN
            /\ UNCHANGED <<err, AgentDict, subdict, plural>>
       ELSE IF In(<<"!">>, line) /\ In(<<"=">>, line)
       THEN /\ subdict' = define_marker(subdict, line)
            /\ CallRead
            /\ UNCHANGED <<FINopen, err, AgentDict, plural>>
       ELSE IF ~In(<<"[">>, line)
       THEN /\ CallRead
            /\ UNCHANGED <<FINopen, err, AgentDict, subdict, plural>>
       ELSE LET part == Partition(line, <<"[">>)
                code == Strip(Partition(part[3], <<"]">>)[1])
                agent0 == Strip(part[1]) \o <<" ">>
                marker == In(<<"!">>, part[1])
                braces == ~marker /\ In(<<"{">>, part[1])
                agent == IF braces
                         THEN Strip(UpTo(part[1], Find(part[1], <<"{">>))) \o <<" ">>
                         ELSE agent0
                newplural ==
                    IF marker THEN plural
                    ELSE IF braces
                    THEN Strip(Slice(part[1], Find(part[1], <<"{">>) + 1,
                                     Find(part[1], <<"}">>)))
                    ELSE RegularPlural(agent0)
                dict1 == IF marker THEN store_marker(AgentDict, subdict, agent0, code)
                         ELSE AgentDict
                dict2 == store_agent(dict1, agent, code)
            IN  IF braces /\ ~In(<<"}">>, part[1])
                THEN /\ CallRead
                     /\ UNCHANGED <<FINopen, err, AgentDict, subdict, plural>>
                ELSE IF ~marker /\ ~braces /\ Len(agent0) < 2
                THEN \* agent[-2] of a phrase that is only its blank
                     /\ pc' = "crashed"
                     /\ err' = "IndexError"
                     /\ UNCHANGED <<FINopen, FINpos, FINnline, line,
                                    AgentDict, subdict, plural>>
                ELSE IF newplural = Unbound
                THEN \* len(plural) before any line has set plural
                     /\ AgentDict' = dict2
                     /\ pc' = "crashed"
                     /\ err' = "UnboundLocalError"
                     /\ UNCHANGED <<FINopen, FINpos, FINnline, line, subdict, plural>>
                ELSE /\ AgentDict' = IF Len(newplural) > 0
                                     THEN store_agent(dict2, newplural \o <<" ">>, code)
                                     ELSE dict2
                     /\ plural' = newplural
                     /\ CallRead
                     /\ UNCHANGED <<FINopen, err, subdict>>
    /\ UNCHANGED <<file, found, ret, out>>

(***************************************************************************)
(* read_verb_dictionary                                                    *)
(***************************************************************************)
K_verbs == <<"v", "e", "r", "b", "s">>
K_phrases == <<"p", "h", "r", "a", "s", "e", "s">>
K_synsets == <<"s", "y", "n", "s", "e", "t", "s">>
K_meaning == <<"m", "e", "a", "n", "i", "n", "g">>
K_code == <<"c", "o", "d", "e">>
K_line == <<"l", "i", "n", "e">>
K_hash == <<"#">>
NullCode == <<"-", "-", "-">>

\* {'meaning': meaning, 'code': code, 'line': line}
Payload(meaning, code, l) ==
    DictSet(DictSet(DictSet(EmptyDict, K_meaning, Str(meaning)), K_code, Str(code)),
            K_line, Str(l))

Reverse(q) == [i \in 1..Len(q) |-> q[Len(q) + 1 - i]]

\* the keys add_dict_tree walks for a word list taken from the front:
\* blanks and empty words are passed over, a synset reference goes through
\* the 'synsets' bin
RECURSIVE TreeKeys(_)
TreeKeys(targ) ==
    IF targ = <<>> THEN <<>>
    ELSE IF Head(targ) \in {<<" ">>, <<>>} THEN TreeKeys(Tail(targ))
    ELSE IF Head(targ)[1] = "&" THEN <<K_synsets, Head(targ)>> \o TreeKeys(Tail(targ))
    ELSE <<Head(targ)>> \o TreeKeys(Tail(targ))

\* add_dict_tree with the walk over the lower words left out: the payload
\* lands directly under the verb
add_dict_tree_NoLower(vd, targ, v, meaning, code, upper, dict, l) ==
    DictSet(vd, dict,
            PathPut(vd[dict], <<v, K_hash>> \o TreeKeys(Reverse(upper)),
                    K_hash, Payload(meaning, code, l)))

\* add_dict_tree that starts a new tree under the verb instead of
\* list.setdefault(verb, {})
add_dict_tree_Fresh(vd, targ, v, meaning, code, upper, dict, l) ==
    DictSet(vd, dict,
            DictSet(vd[dict], v,
                    PathPut(EmptyDict,
                            TreeKeys(targ) \o <<K_hash>> \o TreeKeys(Reverse(upper)),
                            K_hash, Payload(meaning, code, l))))

\* add_dict_tree that consumes the upper words from the front
add_dict_tree_UpperForward(vd, targ, v, meaning, code, upper, dict, l) ==
    DictSet(vd, dict,
            PathPut(vd[dict],
                    <<v>> \o TreeKeys(targ) \o <<K_hash>> \o TreeKeys(upper),
                    K_hash, Payload(meaning, code, l)))

\* VerbDict after add_dict_tree(targ, verb, meaning, code, upper, dict=dict, line=line):
\* the lower words from the front, the '#' that ends them, the upper words
\* from the back, and the payload under a last '#'
add_dict_tree(vd, targ, v, meaning, code, upper, dict, l) ==
    DictSet(vd, dict,
            PathPut(vd[dict],
                    <<v>> \o TreeKeys(targ) \o <<K_hash>> \o TreeKeys(Reverse(upper)),
                    K_hash, Payload(meaning, code, l)))

\* the words and blanks of a pattern phrase, from position start on
RECURSIVE PhraseListFrom(_, _)
PhraseListFrom(thepat, start) ==
    IF start >= Len(thepat) THEN <<>>
    ELSE LET maxlen == Len(thepat) + 1
             sp == FindFrom(thepat, <<" ">>, start)
             un == FindFrom(thepat, <<"_">>, start)
             spfind == IF sp = -1 THEN maxlen ELSE sp
             unfind == IF un = -1 THEN maxlen ELSE un
         IN  IF unfind < spfind
             THEN <<Slice(thepat, start, unfind)>> \o PhraseListFrom(thepat, unfind + 1)
             ELSE <<Slice(thepat, start, spfind), <<" ">>>>
                  \o PhraseListFrom(thepat, spfind + 1)

\* make_phrase_list: exit = TRUE when the check for missing synsets calls exit()
make_phrase_list(vd, thepat) ==
    LET phlist == PhraseListFrom(thepat, 0)
    IN  [exit |-> \E ka \in 0..(Len(phlist) - 1) :
                     /\ ka % 2 = 0
                     /\ Len(At(phlist, ka)) > 0
                     /\ At(phlist, ka)[1] = "&"
                     /\ At(phlist, ka) \notin DOMAIN vd,
         phlist |-> phlist]

\* the verb text and the code of a line
LineVerb(l) == IF In(<<"[">>, l) THEN Strip(Partition(l, <<"[">>)[1]) ELSE Strip(l)
LineCode(l) ==
    IF In(<<"[">>, l)
    THEN LET p2 == Partition(l, <<"[">>)[3] IN UpTo(p2, Find(p2, <<"]">>))
    ELSE <<>>

\* the pattern text after '_ ' has been resolved to ' ' and a final '_' dropped
PatternText(v) ==
    LET v1 == Replace(v, <<"_", " ">>, <<" ">>)
    IN  IF At(v1, -1) = "_" THEN UpTo(v1, -1) ELSE v1

\* a pattern line: exit = TRUE when make_phrase_list ends the process,
\* otherwise dict is VerbDict with the pattern stored under the anchor
StorePattern(vd, anchor, v, code, l) ==
    LET targ == Partition(From(PatternText(v), 1), <<"*">>)
        high == make_phrase_list(vd, LStrip(targ[1]))
        lowphrase == RStrip(targ[3])
        low == make_phrase_list(vd, From(lowphrase, 1))
        lowpat == IF Len(lowphrase) = 0 THEN <<>>
                  ELSE <<<<targ[3][1]>>>> \o UpTo(low.phlist, -1)
    IN  [exit |-> high.exit \/ (Len(lowphrase) > 0 /\ low.exit),
         dict |-> add_dict_tree(vd, lowpat, anchor, <<>>, code, high.phlist, K_phrases, l)]

\* VerbDict after add_dict_tree([], form, theverb, loccode, dict='verbs', line=line)
\* for each form
RECURSIVE StoreForms(_, _, _, _, _)
StoreForms(vd, forms, anchor, loccode, l) ==
    IF forms = <<>> THEN vd
    ELSE StoreForms(add_dict_tree(vd, <<>>, Head(forms), anchor, loccode, <<>>, K_verbs, l),
                    Tail(forms), anchor, loccode, l)

\* the forms listed between { and }
ListedForms(v) == Split(Slice(v, Find(v, <<"{">>) + 1, Find(v, <<"}">>)))

get_verb_forms(vd, v, anchor, loccode, l) ==
    StoreForms(vd, ListedForms(v), anchor, loccode, l)

\* the regular forms of a root, in the order make_verb_forms stores them
RegularForms(vroot) ==
    <<IF At(vroot, -1) \notin {"S", "X", "Z"} THEN vroot \o <<"S">> ELSE vroot \o <<"E", "S">>>>
    \o (IF At(vroot, -1) = "E"
        THEN <<vroot \o <<"D">>, UpTo(vroot, -1) \o <<"I", "N", "G">>>>
        ELSE <<vroot \o <<"E", "D">>, vroot \o <<"I", "N", "G">>>>)

make_verb_forms(vd, v, anchor, loccode, l) ==
    StoreForms(vd, RegularForms(v), anchor, loccode, l)

\* the root of a multi-word verb: the word marked by '+'
MultiRoot(v) ==
    LET plind == Find(v, <<"+">>) + 1
    IN  IF FindFrom(v, <<"_">>, plind) > 0
        THEN Slice(v, plind, FindFrom(v, <<"_">>, plind))
        ELSE From(v, plind)

\* the phrases store_multi_word_verb stores for a verb whose root is not empty
MultiForms(v) ==
    IF In(<<"{">>, v)
    THEN Append(ListedForms(v), Strip(UpTo(v, Find(v, <<"{">>))))
    ELSE LET vroot == MultiRoot(v)
         IN  <<v, Replace(v, vroot, vroot \o <<"S">>)>>
             \o (IF At(vroot, -1) = "E"
                 THEN <<Replace(v, vroot, vroot \o <<"D">>),
                        Replace(v, vroot, UpTo(vroot, -1) \o <<"I", "N", "G">>)>>
                 ELSE <<Replace(v, vroot, vroot \o <<"E", "D">>),
                        Replace(v, vroot, vroot \o <<"I", "N", "G">>)>>)

\* VerbDict after one phrase of a multi-word verb has been stored
StoreMultiPhrase(vd, phrase, anchor, loccode, l) ==
    LET words == SplitOn(phrase, <<"_">>)
        n == Len(words)
    IN  IF ~In(<<"+">>, phrase) THEN vd
        ELSE IF StartsWith(words[1], <<"+">>)
        THEN add_dict_tree(vd, Tail(words), From(words[1], 1), anchor, loccode,
                           <<>>, K_verbs, l)
        ELSE add_dict_tree(vd, <<>>, From(words[n], 1), anchor, loccode,
                           Reverse(SubSeq(words, 1, n - 1)), K_verbs, l)

RECURSIVE StoreMultiPhrases(_, _, _, _, _)
StoreMultiPhrases(vd, forms, anchor, loccode, l) ==
    IF forms = <<>> THEN vd
    ELSE StoreMultiPhrases(StoreMultiPhrase(vd, Head(forms), anchor, loccode, l),
                           Tail(forms), anchor, loccode, l)

\* store_multi_word_verb: crash names the exception that escapes, "none" otherwise
store_multi_word_verb(vd, v, anchor, loccode, l) ==
    IF ~In(<<"{">>, v) /\ ~In(<<"+">>, v)
    THEN [crash |-> "ValueError", dict |-> vd]
    ELSE IF ~In(<<"{">>, v) /\ MultiRoot(v) = <<>>
    THEN [crash |-> "IndexError", dict |-> vd]
    ELSE [crash |-> "none", dict |-> StoreMultiPhrases(vd, MultiForms(v), anchor, loccode, l)]

\* the plural of a synset member
make_plural(st) ==
    IF At(st, -1) = "Y" THEN UpTo(st, -1) \o <<"I", "E", "S">>
    ELSE IF At(st, -1) = "S" THEN UpTo(st, -1) \o <<"E", "S">>
    ELSE st \o <<"S">>

\* VerbDict after a synset member (and its plural) have been stored
StoreMember(vd, synset, wordstr, nopl, l) ==
    LET w == Replace(IF nopl THEN Strip(wordstr) ELSE wordstr, <<"_">>, <<" ">>)
        vd1 == add_dict_tree(vd, Split(w), synset, <<>>, NullCode, <<>>, K_verbs, l)
    IN  IF nopl THEN vd1
        ELSE add_dict_tree(vd1, Split(make_plural(w)), synset, <<>>, NullCode, <<>>,
                           K_verbs, l)

\* the compiler stops on an exception that nothing catches
Crash(e) ==
    /\ pc' = "crashed"
    /\ err' = e
    /\ UNCHANGED <<FINopen, FINpos, FINnline, line>>

\* exit(): the process ends
Exit ==
    /\ pc' = "exited"
    /\ err' = "SystemExit"
    /\ UNCHANGED <<FINopen, FINpos, FINnline, line>>

\* read_verb_dictionary that never takes newblock back after a verb line
read_verb_dictionary_KeepsNewblock ==
    /\ pc = "loop"
    /\ ret = "main"
    /\ LET v == LineVerb(line)
           code == LineCode(line)
           curcode == IF Len(code) > 0 THEN code ELSE primarycode
           anchor == IF ~newblock THEN theverb
                     ELSE IF In(<<"{">>, v) THEN Strip(UpTo(v, Find(v, <<"{">>)))
                     ELSE v
           vd1 == IF newblock
                  THEN add_dict_tree(VerbDict, <<>>, anchor, <<>>, curcode, <<>>,
                                     K_phrases, line)
                  ELSE VerbDict
           multi == store_multi_word_verb(vd1, v, anchor, curcode, line)
           vd2 == add_dict_tree(vd1, <<>>, Split(v)[1], anchor, curcode, <<>>, K_verbs, line)
           pattern == StorePattern(VerbDict, theverb, v, code, line)
       IN
       IF Len(line) = 0
       THEN /\ close_FIN
            /\ UNCHANGED <<ret, err, verbvars>>
       ELSE IF StartsWith(v, <<"-", "-", "-">>)
       THEN /\ primarycode' = IF Len(code) > 0 THEN code ELSE NullCode
            /\ newblock' = TRUE
            /\ verb' = v
            /\ CallRead
            /\ UNCHANGED <<FINopen, ret, err, VerbDict, theverb, noplural>>
       ELSE IF Len(v) = 0
       THEN \* verb[0] of an empty verb text
            /\ Crash("IndexError")
            /\ verb' = v
            /\ UNCHANGED <<ret, VerbDict, theverb, newblock, primarycode, noplural>>
       ELSE IF v[1] = "-"
       THEN IF In(<<"{">>, v)
            THEN /\ verb' = v
                 /\ CallRead
                 /\ UNCHANGED <<FINopen, ret, err, VerbDict, theverb, newblock,
                                primarycode, noplural>>
            ELSE IF pattern.exit
            THEN /\ Exit
                 /\ verb' = PatternText(v)
                 /\ UNCHANGED <<ret, VerbDict, theverb, newblock, primarycode, noplural>>
            ELSE /\ VerbDict' = pattern.dict
                 /\ verb' = PatternText(v)
                 /\ CallRead
                 /\ UNCHANGED <<FINopen, ret, err, theverb, newblock, primarycode, noplural>>
       ELSE IF v[1] = "&"
       THEN /\ noplural' = (At(v, -1) = "_")
            /\ verb' = IF At(v, -1) = "_" THEN UpTo(v, -1) ELSE v
            /\ VerbDict' = DictSet(VerbDict, verb', EmptyDict)
            /\ CallRead
            /\ ret' = "synset"
            /\ UNCHANGED <<FINopen, err, theverb, newblock, primarycode>>
       ELSE IF curcode = Unbound
       THEN \* curcode = primarycode before any block header has set it
            /\ Crash("UnboundLocalError")
            /\ verb' = v
            /\ UNCHANGED <<ret, VerbDict, theverb, newblock, primarycode, noplural>>
       ELSE IF In(<<"_">>, v)
       THEN IF multi.crash # "none"
            THEN /\ Crash(multi.crash)
                 /\ VerbDict' = vd1
                 /\ theverb' = anchor
                 /\ newblock' = newblock
                 /\ verb' = v
                 /\ UNCHANGED <<ret, primarycode, noplural>>
            ELSE /\ VerbDict' = multi.dict
                 /\ theverb' = anchor
                 /\ newblock' = newblock
                 /\ verb' = v
                 /\ CallRead
                 /\ UNCHANGED <<FINopen, ret, err, primarycode, noplural>>
       ELSE /\ VerbDict' = IF In(<<"{">>, v)
                           THEN get_verb_forms(vd2, v, anchor, curcode, line)
                           ELSE make_verb_forms(vd2, v, anchor, curcode, line)
            /\ theverb' = anchor
            /\ newblock' = newblock
            /\ verb' = v
            /\ CallRead
            /\ UNCHANGED <<FINopen, ret, err, primarycode, noplural>>
    /\ UNCHANGED <<file, found, out>>

\* read_verb_dictionary that gives every verb line the code of the block header
read_verb_dictionary_HeaderCode ==
    /\ pc = "loop"
    /\ ret = "main"
    /\ LET v == LineVerb(line)
           code == LineCode(line)
           curcode == primarycode
           anchor == IF ~newblock THEN theverb
                     ELSE IF In(<<"{">>, v) THEN Strip(UpTo(v, Find(v, <<"{">>)))
                     ELSE v
           vd1 == IF newblock
                  THEN add_dict_tree(VerbDict, <<>>, anchor, <<>>, curcode, <<>>,
                                     K_phrases, line)
                  ELSE VerbDict
           multi == store_multi_word_verb(vd1, v, anchor, curcode, line)
           vd2 == add_dict_tree(vd1, <<>>, Split(v)[1], anchor, curcode, <<>>, K_verbs, line)
           pattern == StorePattern(VerbDict, theverb, v, code, line)
       IN
       IF Len(line) = 0
       THEN /\ close_FIN
            /\ UNCHANGED <<ret, err, verbvars>>
       ELSE IF StartsWith(v, <<"-", "-", "-">>)
       THEN /\ primarycode' = IF Len(code) > 0 THEN code ELSE NullCode
            /\ newblock' = TRUE
            /\ verb' = v
            /\ CallRead
            /\ UNCHANGED <<FINopen, ret, err, VerbDict, theverb, noplural>>
       ELSE IF Len(v) = 0
       THEN \* verb[0] of an empty verb text
            /\ Crash("IndexError")
            /\ verb' = v
            /\ UNCHANGED <<ret, VerbDict, theverb, newblock, primarycode, noplural>>
       ELSE IF v[1] = "-"
       THEN IF In(<<"{">>, v)
            THEN /\ verb' = v
                 /\ CallRead
                 /\ UNCHANGED <<FINopen, ret, err, VerbDict, theverb, newblock,
                                primarycode, noplural>>
            ELSE IF pattern.exit
            THEN /\ Exit
                 /\ verb' = PatternText(v)
                 /\ UNCHANGED <<ret, VerbDict, theverb, newblock, primarycode, noplural>>
            ELSE /\ VerbDict' = pattern.dict
                 /\ verb' = PatternText(v)
                 /\ CallRead
                 /\ UNCHANGED <<FINopen, ret, err, theverb, newblock, primarycode, noplural>>
       ELSE IF v[1] = "&"
       THEN /\ noplural' = (At(v, -1) = "_")
            /\ verb' = IF At(v, -1) = "_" THEN UpTo(v, -1) ELSE v
            /\ VerbDict' = DictSet(VerbDict, verb', EmptyDict)
            /\ CallRead
            /\ ret' = "synset"
            /\ UNCHANGED <<FINopen, err, theverb, newblock, primarycode>>
       ELSE IF curcode = Unbound
       THEN \* curcode = primarycode before any block header has set it
            /\ Crash("UnboundLocalError")
            /\ verb' = v
            /\ UNCHANGED <<ret, VerbDict, theverb, newblock, primarycode, noplural>>
       ELSE IF In(<<"_">>, v)
       THEN IF multi.crash # "none"
            THEN /\ Crash(multi.crash)
                 /\ VerbDict' = vd1
                 /\ theverb' = anchor
                 /\ newblock' = FALSE
                 /\ verb' = v
                 /\ UNCHANGED <<ret, primarycode, noplural>>
            ELSE /\ VerbDict' = multi.dict
                 /\ theverb' = anchor
                 /\ newblock' = FALSE
                 /\ verb' = v
                 /\ CallRead
                 /\ UNCHANGED <<FINopen, ret, err, primarycode, noplural>>
       ELSE /\ VerbDict' = IF In(<<"{">>, v)
                           THEN get_verb_forms(vd2, v, anchor, curcode, line)
                           ELSE make_verb_forms(vd2, v, anchor, curcode, line)
            /\ theverb' = anchor
            /\ newblock' = FALSE
            /\ verb' = v
            /\ CallRead
            /\ UNCHANGED <<FINopen, ret, err, primarycode, noplural>>
    /\ UNCHANGED <<file, found, out>>

\* read_verb_dictionary where a pattern line with '{' disarms the block
read_verb_dictionary_BraceDisarms ==
    /\ pc = "loop"
    /\ ret = "main"
    /\ LET v == LineVerb(line)
           code == LineCode(line)
           curcode == IF Len(code) > 0 THEN code ELSE primarycode
           anchor == IF ~newblock THEN theverb
                     ELSE IF In(<<"{">>, v) THEN Strip(UpTo(v, Find(v, <<"{">>)))
                     ELSE v
           vd1 == IF newblock
                  THEN add_dict_tree(VerbDict, <<>>, anchor, <<>>, curcode, <<>>,
                                     K_phrases, line)
                  ELSE VerbDict
           multi == store_multi_word_verb(vd1, v, anchor, curcode, line)
           vd2 == add_dict_tree(vd1, <<>>, Split(v)[1], anchor, curcode, <<>>, K_verbs, line)
           pattern == StorePattern(VerbDict, theverb, v, code, line)
       IN
       IF Len(line) = 0
       THEN /\ close_FIN
            /\ UNCHANGED <<ret, err, verbvars>>
       ELSE IF StartsWith(v, <<"-", "-", "-">>)
       THEN /\ primarycode' = IF Len(code) > 0 THEN code ELSE NullCode
            /\ newblock' = TRUE
            /\ verb' = v
            /\ CallRead
            /\ UNCHANGED <<FINopen, ret, err, VerbDict, theverb, noplural>>
       ELSE IF Len(v) = 0
       THEN \* verb[0] of an empty verb text
            /\ Crash("IndexError")
            /\ verb' = v
            /\ UNCHANGED <<ret, VerbDict, theverb, newblock, primarycode, noplural>>
       ELSE IF v[1] = "-"
       THEN IF In(<<"{">>, v)
            THEN /\ verb' = v
                 /\ newblock' = FALSE
                 /\ CallRead
                 /\ UNCHANGED <<FINopen, ret, err, VerbDict, theverb,
                                primarycode, noplural>>
            ELSE IF pattern.exit
            THEN /\ Exit
                 /\ verb' = PatternText(v)
                 /\ UNCHANGED <<ret, VerbDict, theverb, newblock, primarycode, noplural>>
            ELSE /\ VerbDict' = pattern.dict
                 /\ verb' = PatternText(v)
                 /\ CallRead
                 /\ UNCHANGED <<FINopen, ret, err, theverb, newblock, primarycode, noplural>>
       ELSE IF v[1] = "&"
       THEN /\ noplural' = (At(v, -1) = "_")
            /\ verb' = IF At(v, -1) = "_" THEN UpTo(v, -1) ELSE v
            /\ VerbDict' = DictSet(VerbDict, verb', EmptyDict)
            /\ CallRead
            /\ ret' = "synset"
            /\ UNCHANGED <<FINopen, err, theverb, newblock, primarycode>>
       ELSE IF curcode = Unbound
       THEN \* curcode = primarycode before any block header has set it
            /\ Crash("UnboundLocalError")
            /\ verb' = v
            /\ UNCHANGED <<ret, VerbDict, theverb, newblock, primarycode, noplural>>
       ELSE IF In(<<"_">>, v)
       THEN IF multi.crash # "none"
            THEN /\ Crash(multi.crash)
                 /\ VerbDict' = vd1
                 /\ theverb' = anchor
                 /\ newblock' = FALSE
                 /\ verb' = v
                 /\ UNCHANGED <<ret, primarycode, noplural>>
            ELSE /\ VerbDict' = multi.dict
                 /\ theverb' = anchor
                 /\ newblock' = FALSE
                 /\ verb' = v
                 /\ CallRead
                 /\ UNCHANGED <<FINopen, ret, err, primarycode, noplural>>
       ELSE /\ VerbDict' = IF In(<<"{">>, v)
                           THEN get_verb_forms(vd2, v, anchor, curcode, line)
                           ELSE make_verb_forms(vd2, v, anchor, curcode, line)
            /\ theverb' = anchor
            /\ newblock' = FALSE
            /\ verb' = v
            /\ CallRead
            /\ UNCHANGED <<FINopen, ret, err, primarycode, noplural>>
    /\ UNCHANGED <<file, found, out>>

\* the loop test of read_verb_dictionary and the body for one line, up to
\* the next read_FIN_line()
read_verb_dictionary ==
    /\ pc = "loop"
    /\ ret = "main"
    /\ LET v == LineVerb(line)
           code == LineCode(line)
           curcode == IF Len(code) > 0 THEN code ELSE primarycode
           anchor == IF ~newblock THEN theverb
                     ELSE IF In(<<"{">>, v) THEN Strip(UpTo(v, Find(v, <<"{">>)))
                     ELSE v
           vd1 == IF newblock
                  THEN add_dict_tree(VerbDict, <<>>, anchor, <<>>, curcode, <<>>,
                                     K_phrases, line)
                  ELSE VerbDict
           multi == store_multi_word_verb(vd1, v, anchor, curcode, line)
           vd2 == add_dict_tree(vd1, <<>>, Split(v)[1], anchor, curcode, <<>>, K_verbs, line)
           pattern == StorePattern(VerbDict, theverb, v, code, line)
       IN
       IF Len(line) = 0
       THEN /\ close_FIN
            /\ UNCHANGED <<ret, err, verbvars>>
       ELSE IF StartsWith(v, <<"-", "-", "-">>)
       THEN /\ primarycode' = IF Len(code) > 0 THEN code ELSE NullCode
            /\ newblock' = TRUE
            /\ verb' = v
            /\ CallRead
            /\ UNCHANGED <<FINopen, ret, err, VerbDict, theverb, noplural>>
       ELSE IF Len(v) = 0
       THEN \* verb[0] of an empty verb text
            /\ Crash("IndexError")
            /\ verb' = v
            /\ UNCHANGED <<ret, VerbDict, theverb, newblock, primarycode, noplural>>
       ELSE IF v[1] = "-"
       THEN IF In(<<"{">>, v)
            THEN /\ verb' = v
                 /\ CallRead
                 /\ UNCHANGED <<FINopen, ret, err, VerbDict, theverb, newblock,
                                primarycode, noplural>>
            ELSE IF pattern.exit
            THEN /\ Exit
                 /\ verb' = PatternText(v)
                 /\ UNCHANGED <<ret, VerbDict, theverb, newblock, primarycode, noplural>>
            ELSE /\ VerbDict' = pattern.dict
                 /\ verb' = PatternText(v)
                 /\ CallRead
                 /\ UNCHANGED <<FINopen, ret, err, theverb, newblock, primarycode, noplural>>
       ELSE IF v[1] = "&"
       THEN /\ noplural' = (At(v, -1) = "_")
            /\ verb' = IF At(v, -1) = "_" THEN UpTo(v, -1) ELSE v
            /\ VerbDict' = DictSet(VerbDict, verb', EmptyDict)
            /\ CallRead
            /\ ret' = "synset"
            /\ UNCHANGED <<FINopen, err, theverb, newblock, primarycode>>
       ELSE IF curcode = Unbound
       THEN \* curcode = primarycode before any block header has set it
            /\ Crash("UnboundLocalError")
            /\ verb' = v
            /\ UNCHANGED <<ret, VerbDict, theverb, newblock, primarycode, noplural>>
       ELSE IF In(<<"_">>, v)
       THEN IF multi.crash # "none"
            THEN /\ Crash(multi.crash)
                 /\ VerbDict' = vd1
                 /\ theverb' = anchor
                 /\ newblock' = FALSE
                 /\ verb' = v
                 /\ UNCHANGED <<ret, primarycode, noplural>>
            ELSE /\ VerbDict' = multi.dict
                 /\ theverb' = anchor
                 /\ newblock' = FALSE
                 /\ verb' = v
                 /\ CallRead
                 /\ UNCHANGED <<FINopen, ret, err, primarycode, noplural>>
       ELSE /\ VerbDict' = IF In(<<"{">>, v)
                           THEN get_verb_forms(vd2, v, anchor, curcode, line)
                           ELSE make_verb_forms(vd2, v, anchor, curcode, line)
            /\ theverb' = anchor
            /\ newblock' = FALSE
            /\ verb' = v
            /\ CallRead
            /\ UNCHANGED <<FINopen, ret, err, primarycode, noplural>>
    /\ UNCHANGED <<file, found, out>>

\* one test of `while line[0] == '+'` after a synset line, with its body up
\* to the next read_FIN_line()
read_verb_synset ==
    /\ pc = "loop"
    /\ ret = "synset"
    /\ LET wordstr == Strip(From(line, 1))
       IN
       IF Len(line) = 0
       THEN \* line[0] at the end of the file
            /\ Crash("IndexError")
            /\ UNCHANGED <<ret, verbvars>>
       ELSE IF line[1] # "+"
       THEN /\ ret' = "main"
            /\ UNCHANGED <<FINopen, FINpos, FINnline, line, pc, err, verbvars>>
       ELSE IF ~noplural /\ Len(wordstr) = 0
       THEN \* wordstr[-1] of an empty member
            /\ Crash("IndexError")
            /\ UNCHANGED <<ret, verbvars>>
       ELSE /\ VerbDict' = StoreMember(VerbDict, verb, wordstr,
                                       noplural \/ At(wordstr, -1) = "_", line)
            /\ CallRead
            /\ UNCHANGED <<FINopen, ret, err, theverb, verb, newblock, primarycode, noplural>>
    /\ UNCHANGED <<file, found, out>>

(***************************************************************************)
(* Lines of the line-source specification.  The letter c is written only   *)
(* as comment text.                                                        *)
(***************************************************************************)
F_text == <<"a", "\n">>
F_blank == <<" ", "\n">>
F_hash == <<"#", "d", "\n">>
F_inline == <<"b", " ", "#", "d", "\n">>
F_xml == <<"a", " ", "<", "!", "-", "-", " ", "c", " ", "-", "-", ">", " ", "b", "\n">>
F_openmid == <<"a", " ", "<", "!", "-", "-", " ", "c", "\n">>
F_openstart == <<"<", "!", "-", "-", " ", "c", "\n">>
F_inside == <<"c", "\n">>
F_close == <<"c", " ", "-", "-", ">", "\n">>

FINLines == {F_text, F_blank, F_hash, F_inline, F_xml, F_openmid, F_openstart,
             F_inside, F_close}

(***************************************************************************)
(* Lines of the actor specification                                        *)
(***************************************************************************)
A_primary == <<"K", " ", "[", "M", "]", "\n">>
A_nocode == <<"Z", "\n">>
A_synonym == <<"+", "Y", "\n">>
A_interval == <<"\t", "[", "G", " ", "7", "9", "1", "2", "2", "7", "-",
                "8", "6", "1", "1", "2", "4", "]", "\n">>
A_before == <<"\t", "[", "B", " ", "<", "7", "9", "1", "2", "2", "7", "]", "\n">>
A_default == <<"\t", "[", "D", "]", "\n">>
A_reversed == <<"\t", "[", "G", " ", "8", "6", "1", "1", "2", "4", "-",
                "7", "9", "1", "2", "2", "7", "]", "\n">>
A_stop == <<"-", "-", "-", "S", "T", "O", "P", "-", "-", "-", "\n">>
A_comment == <<"Q", " ", "<", "!", "-", "-", " ", "c", "\n">>

\* the files of SpecCluster: a primary line, the tab-indented lines of its
\* cluster, and at most one line that follows the cluster
A_after == <<"\t", "[", "A", " ", ">", "7", "9", "1", "2", "2", "7", "]", "\n">>
A_baddate == <<"\t", "[", "E", " ", "<", "7", "9", "0", "2", "3", "1", "]", "\n">>
A_badinterval == <<"\t", "[", "E", " ", "7", "9", "1", "2", "x", "7", "-",
                   "8", "6", "1", "1", "2", "4", "]", "\n">>
A_padded == <<"\t", "[", "D", " ", "]", "\n">>
RestrictionLines == {A_interval, A_before, A_after, A_default, A_reversed,
                     A_baddate, A_badinterval, A_padded}
ClusterFiles ==
    {<<first>> \o body \o closing :
        first \in {A_primary, A_nocode},
        body \in Files(RestrictionLines, MaxRestrictions),
        closing \in {<<>>, <<A_primary>>, <<A_synonym>>, <<A_comment>>}}

ActorLines == {A_primary, A_nocode, A_synonym, A_interval, A_before, A_default,
               A_reversed, A_stop, A_comment}

(***************************************************************************)
(* Lines of the agent specification                                        *)
(***************************************************************************)
G_define == <<"!", "M", "!", "=", "U", ",", " ", "V", "\n">>
G_marker == <<"A", "!", "M", "!", " ", "[", "H", "~", "]", "\n">>
G_undefined == <<"B", "!", "Q", "!", " ", "[", "~", "J", "]", "\n">>
G_plain == <<"P", " ", "[", "~", "G", "]", "\n">>
G_braces == <<"T", " ", "{", "X", "}", " ", "[", "~", "K", "]", "\n">>
G_noplural == <<"R", " ", "{", "}", " ", "[", "~", "L", "]", "\n">>
G_nocode == <<"N", "\n">>
G_ending_y == <<"K", "Y", " ", "[", "G", "~", "]", "\n">>
G_ending_s == <<"A", "S", " ", "[", "~", "G", "]", "\n">>
G_comment == <<"Q", " ", "<", "!", "-", "-", " ", "c", "\n">>

AgentLines == {G_define, G_marker, G_undefined, G_plain, G_braces, G_noplural,
               G_nocode, G_ending_y, G_ending_s, G_comment}

(***************************************************************************)
(* Lines of the verb specification                                         *)
(***************************************************************************)
V_header == <<"-", "-", "-", " ", "X", " ", "[", "7", "]", " ", "-", "-", "-", "\n">>
V_verb == <<"G", "O", "\n">>
V_coded == <<"B", "E", " ", "[", "8", "]", "\n">>
V_pattern == <<"-", " ", "*", " ", "R", " ", "[", "9", "]", "\n">>
V_undefined == <<"-", " ", "*", " ", "&", "U", " ", "[", "9", "]", "\n">>
V_synset == <<"&", "S", "\n">>
V_member == <<"+", "T", "\n">>
V_comment == <<"Q", " ", "<", "!", "-", "-", " ", "c", "\n">>

V_multi == <<"A", "_", "+", "B", "\n">>
V_nullheader == <<"-", "-", "-", " ", "Y", " ", "-", "-", "-", "\n">>
V_forms == <<"D", "O", " ", "{", "D", "I", "D", "}", "\n">>

\* verb files that start with a block header
BlockLines == {V_header, V_verb, V_coded, V_pattern, V_multi, V_forms, V_nullheader}
BlockFiles ==
    {<<V_header>> \o body \o closing :
        body \in Files(BlockLines, MaxBlockLen),
        closing \in {<<>>, <<V_synset, V_member>>, <<V_comment>>}}

\* verb lines by the last letter of the root and by the place of the root
V_ends == <<"A", "S", "\n">>
V_endx == <<"A", "X", "\n">>
V_endz == <<"A", "Z", "\n">>
V_rootx == <<"A", "_", "+", "X", "\n">>
V_roote == <<"+", "B", "E", "_", "A", "\n">>
V_rootlast == <<"A", "_", "C", "_", "+", "B", "\n">>
V_rootmid == <<"A", "_", "+", "B", "_", "C", "\n">>
FormLines == {V_verb, V_coded, V_ends, V_endx, V_endz, V_multi, V_rootx, V_roote,
              V_rootlast, V_rootmid, V_forms}

\* synset lines and member lines by their last letter
V_synset_ == <<"&", "P", "_", "\n">>
V_member_ == <<"+", "T", "_", "\n">>
V_membery == <<"+", "T", "Y", "\n">>
V_members == <<"+", "A", "S", "\n">>

\* verb files of a block header, verb lines and then a synset with one member
FormFiles ==
    {<<V_header>> \o body \o closing :
        body \in Files(FormLines, MaxFormLen),
        closing \in {<<>>, <<V_comment>>}
                       \cup {<<sy, m>> : sy \in {V_synset, V_synset_},
                                        m \in {V_member, V_member_, V_membery, V_members}}}

\* pattern lines by the connector of their words and by the side of '*'
V_adjacent == <<"-", " ", "*", " ", "A", "_", "B", " ", "[", "1", "]", "\n">>
V_gap == <<"-", " ", "*", " ", "A", " ", "B", " ", "[", "1", "]", "\n">>
V_upper == <<"-", " ", "C", " ", "D", " ", "*", " ", "R", " ", "[", "9", "]", "\n">>
V_brace == <<"-", " ", "{", "A", "}", " ", "*", " ", "B", " ", "[", "3", "]", "\n">>
PatternLines == {V_verb, V_pattern, V_adjacent, V_gap, V_upper, V_brace}

\* verb files of a block header and then verb lines and pattern lines
PatternFiles ==
    {<<V_header>> \o body \o closing :
        body \in Files(PatternLines, MaxPatternLen),
        closing \in {<<>>, <<V_synset, V_member>>, <<V_comment>>}}

VerbLines == {V_header, V_verb, V_coded, V_pattern, V_undefined, V_synset, V_member,
              V_comment}

(***************************************************************************)
(* _sentence_segmenter                                                     *)
(***************************************************************************)
MIN_SENTLENGTH == 100
MAX_SENTLENGTH == 512

\* ABBREV_LIST, as the source writes it
ABBREV_LIST ==
    {<<"m", "r", "s", ".">>, <<"m", "s", ".">>, <<"m", "r", ".">>, <<"d", "r", ".">>,
     <<"g", "o", "v", ".">>, <<"s", "r", ".">>, <<"r", "e", "v", ".">>,
     <<"r", ".", "n", ".">>, <<"p", "r", "e", "s", ".">>,
     <<"t", "r", "e", "a", "s", ".">>, <<"s", "e", "c", "t", ".">>,
     <<"m", "a", "j", ".">>, <<"p", "h", ".", "d", ".">>,
     <<"e", "d", ".", " ", "p", "s", "y", ".">>, <<"p", "r", "o", "c", ".">>,
     <<"f", "r", ".">>, <<"a", "s", "s", "t", ".">>, <<"p", ".", "f", ".", "c", ".">>,
     <<"p", "r", "o", "f", ".">>, <<"a", "d", "m", "r", ".">>,
     <<"e", "n", "g", "r", ".">>, <<"m", "g", "r", ".">>, <<"s", "u", "p", "t", ".">>,
     <<"a", "d", "m", "i", "n", ".">>, <<"a", "s", "s", "o", "c", ".">>,
     <<"v", "o", "c", ".">>, <<"h", "o", "n", ".">>, <<"m", ".", "d", ".">>,
     <<"d", "p", "t", "y", ".">>, <<"s", "e", "c", ".">>, <<"c", "a", "p", "t", ".">>,
     <<"c", ".", "e", ".", "o", ".">>, <<"c", ".", "f", ".", "o", ".">>,
     <<"c", ".", "i", ".", "o", ".">>, <<"c", ".", "o", ".", "o", ".">>,
     <<"c", ".", "p", ".", "a", ".">>, <<"c", ".", "n", ".", "a", ".">>,
     <<"a", "c", "c", "t", ".">>, <<"l", "l", "c", ".">>, <<"i", "n", "c", ".">>,
     <<"d", "i", "r", ".">>, <<"e", "s", "q", ".">>, <<"l", "t", ".">>,
     <<"d", ".", "d", ".">>, <<"e", "d", ".">>, <<"r", "e", "v", "d", ".">>,
     <<"p", "s", "y", ".", "d", ".">>, <<"v", ".", "p", ".">>,
     <<"s", "e", "n", "r", ".">>, <<"g", "e", "n", ".">>, <<"p", "r", "o", "v", ".">>,
     <<"c", "m", "d", "r", ".">>, <<"s", "g", "t", ".">>, <<"s", "e", "n", ".">>,
     <<"c", "o", "l", ".">>, <<"l", "i", "e", "u", "t", ".">>, <<"c", "p", "l", ".">>,
     <<"p", "f", "c", ".">>, <<"k", ".", "p", ".", "h", ".">>,
     <<"c", "e", "n", "t", ".">>, <<"d", "e", "g", ".">>, <<"d", "o", "z", ".">>,
     <<"F", "a", "h", "r", ".">>, <<"C", "e", "l", ".">>, <<"F", ".">>, <<"C", ".">>,
     <<"K", ".">>, <<"f", "t", ".">>, <<"f", "u", "r", ".">>, <<"g", "a", "l", ".">>,
     <<"g", "r", ".">>, <<"i", "n", ".">>, <<"k", "g", ".">>, <<"k", "m", ".">>,
     <<"k", "w", ".">>, <<"l", ".">>, <<"l", "a", "t", ".">>, <<"l", "b", ".">>,
     <<"l", "b", " ", "p", "e", "r", " ", "s", "q", " ", "i", "n", ".">>,
     <<"l", "o", "n", "g", ".">>, <<"m", "g", ".">>,
     <<"m", "m", ".", ",", ",", " ", "m", ".", "p", ".", "g", ".">>,
     <<"m", ".", "p", ".", "h", ".">>, <<"c", "c", ".">>, <<"q", "r", ".">>,
     <<"q", "t", ".">>, <<"s", "q", ".">>, <<"t", ".">>, <<"v", "o", "l", ".">>,
     <<"w", ".">>, <<"w", "t", ".">>}

\* s.lower()
Lower(s) ==
    [i \in 1..Len(s) |->
        IF \E k \in 1..26 : UpperCase[k] = s[i]
        THEN LowerCase[CHOOSE k \in 1..26 : UpperCase[k] = s[i]]
        ELSE s[i]]

\* c.isupper()
IsUpper(c) == \E k \in 1..26 : UpperCase[k] = c

\* s.rfind(c, lo, hi) for a one-character c
RFind(s, c, lo, hi) ==
    LET cands == {i \in PyIdx(lo, Len(s))..(PyIdx(hi, Len(s)) - 1) : At(s, i) = c}
    IN  IF cands = {} THEN -1 ELSE SetMax(cands)

\* s.count(c) for a one-character c
Count(s, c) == Cardinality({i \in 1..Len(s) : s[i] = c})

\* the first character after the blanks that follow position i, Len(p) if
\* the text ends in them
AfterBlanks(p, i) ==
    LET ns == {j \in (i + 1)..(Len(p) - 1) : ~IsSpace(At(p, j))}
    IN  IF ns = {} THEN Len(p) ELSE SetMin(ns)

\* terpat = [\.\?!]\s+[A-Z\"] matches at position i
TerAt(p, i) ==
    /\ At(p, i) \in {".", "?", "!"}
    /\ i + 2 < Len(p)
    /\ IsSpace(At(p, i + 1))
    /\ AfterBlanks(p, i) < Len(p)
    /\ (IsUpper(At(p, AfterBlanks(p, i))) \/ At(p, AfterBlanks(p, i)) = "\"")

\* terpat.search(p, start): found = FALSE for None
terpat_search(p, start) ==
    LET ms == {i \in start..(Len(p) - 1) : TerAt(p, i)}
    IN  IF ms = {} THEN [found |-> FALSE, start |-> 0, end |-> 0]
        ELSE [found |-> TRUE, start |-> SetMin(ms),
              end |-> AfterBlanks(p, SetMin(ms)) + 1]

\* the period at position t ends a single initial
SingleInitial(p, t) == IsUpper(At(p, t - 1)) /\ At(p, t - 2) = " "

\* the period at position t ends a word of ABBREV_LIST, as the code looks
\* for it: from the last blank before the word
ListedAbbreviation(p, t) ==
    LET loc == RFind(p, " ", 0, t - 1)
    IN  loc > 0 /\ Lower(Slice(p, loc + 1, t + 1)) \in ABBREV_LIST

\* isok without the count of the parentheses
isok_NoParens(p, t) ==
    /\ ~(At(p, t) = "." /\ (SingleInitial(p, t) \/ ListedAbbreviation(p, t)))
    /\ Count(UpTo(p, t), "\"") % 2 = 0

\* isok for the candidate at position t
isok(p, t) ==
    /\ ~(At(p, t) = "." /\ (SingleInitial(p, t) \/ ListedAbbreviation(p, t)))
    /\ Count(UpTo(p, t), "(") = Count(UpTo(p, t), ")")
    /\ Count(UpTo(p, t), "\"") % 2 = 0

\* the length test a sentence has to pass to be kept
InBounds(n) == n > MIN_SENTLENGTH /\ n < MAX_SENTLENGTH

\* segment_candidate that searches again from the rejected terminator itself
segment_candidate_SamePlace ==
    /\ pc = "seg_loop"
    /\ terpat_search(paragr, searchstart).found
    /\ LET t == terpat_search(paragr, searchstart).start
           e == terpat_search(paragr, searchstart).end
       IN  IF isok(paragr, t)
           THEN /\ sentlist' = IF InBounds(Len(UpTo(paragr, t)))
                               THEN Append(sentlist, UpTo(paragr, t + 2))
                               ELSE sentlist
                /\ paragr' = From(paragr, e - 1)
                /\ searchstart' = 0
                /\ cuts' = Append(cuts, UpTo(paragr, t + 1))
           ELSE /\ searchstart' = t
                /\ UNCHANGED <<paragr, sentlist, cuts>>
    /\ UNCHANGED pc

\* one pass through the body of `while terloc`
segment_candidate ==
    /\ pc = "seg_loop"
    /\ terpat_search(paragr, searchstart).found
    /\ LET t == terpat_search(paragr, searchstart).start
           e == terpat_search(paragr, searchstart).end
       IN  IF isok(paragr, t)
           THEN /\ sentlist' = IF InBounds(Len(UpTo(paragr, t)))
                               THEN Append(sentlist, UpTo(paragr, t + 2))
                               ELSE sentlist
                /\ paragr' = From(paragr, e - 1)
                /\ searchstart' = 0
                /\ cuts' = Append(cuts, UpTo(paragr, t + 1))
           ELSE /\ searchstart' = t + 2
                /\ UNCHANGED <<paragr, sentlist, cuts>>
    /\ UNCHANGED pc

\* the end of the loop: the final sentence is added and sentlist returned
segment_final ==
    /\ pc = "seg_loop"
    /\ ~terpat_search(paragr, searchstart).found
    /\ sentlist' = IF InBounds(Len(paragr)) THEN Append(sentlist, paragr) ELSE sentlist
    /\ pc' = "seg_done"
    /\ UNCHANGED <<paragr, searchstart, cuts>>

(***************************************************************************)
(* Paragraphs for the segmenter                                            *)
(***************************************************************************)
MaxSegs == 3        \* pieces per paragraph

Fill(n) == [i \in 1..n |-> "a"]

\* a sentence whose period stands at position n + 1
Sentence(n) == <<"B">> \o Fill(n) \o <<".", " ">>

\* the lengths around the two bounds
FillLens ==
    {1, MIN_SENTLENGTH - 1, MIN_SENTLENGTH, MAX_SENTLENGTH - 2, MAX_SENTLENGTH - 1}

P_word == <<"B", "a", " ">>
P_abbrev == <<"D", "r", ".", " ">>
P_initial == <<"J", ".", " ">>
P_open == <<"(", "B", "a", ".", " ">>
P_close == <<"B", "a", ")", ".", " ">>
P_quote == <<"\"", "B", "a", ".", " ">>
P_parenthesis == <<"(">> \o Sentence(MIN_SENTLENGTH)

Pieces ==
    {Sentence(n) : n \in FillLens}
        \cup {P_word, P_abbrev, P_initial, P_open, P_close, P_quote}

RECURSIVE Join(_)
Join(f) == IF f = <<>> THEN <<>> ELSE Head(f) \o Join(Tail(f))

Paragraphs == {Join(f) : f \in Files(Pieces, MaxSegs)}

\* paragraphs with parentheses and quotations around their terminators
MaxParenSegs == 3   \* pieces per paragraph
ParenPieces ==
    {Sentence(MIN_SENTLENGTH), P_word, P_initial, P_open, P_close, P_quote, P_parenthesis}
ParenParagraphs == {Join(f) : f \in Files(ParenPieces, MaxParenSegs)}

(***************************************************************************)
(* Date strings for dstr_to_ordate                                         *)
(***************************************************************************)
LongYears ==
    {<<"1", "6", "0", "1">>, <<"1", "9", "0", "0">>, <<"1", "9", "3", "1">>,
     <<"1", "9", "9", "9">>, <<"2", "0", "0", "0">>, <<"2", "0", "1", "0">>,
     <<"2", "0", "1", "2">>, <<"2", "0", "1", "3">>, <<"2", "0", "3", "0">>}
ShortYears == {<<"0", "0">>, <<"1", "0">>, <<"1", "2">>, <<"1", "3">>, <<"3", "0">>, <<"3", "1">>, <<"9", "9">>}
MonthFields == {<<"0", "0">>, <<"0", "1">>, <<"0", "2">>, <<"0", "3">>, <<"0", "4">>, <<"0", "9">>, <<"1", "2">>, <<"1", "3">>}
DayFields == {<<"0", "0">>, <<"0", "1">>, <<"2", "6">>, <<"2", "8">>, <<"2", "9">>, <<"3", "0">>, <<"3", "1">>, <<"3", "2">>}

\* strings that are not of the form YYMMDD or YYYYMMDD
OddDates ==
    {<<>>, <<"2", "0", "1", "0">>, <<"2", "0", "1", "0", "x", "1", "0", "1">>,
     <<"1", "0", "0", "1", "0", "1", "1">>, <<"2", "0", "1", "3", "0", "9", "2", "6", "1">>}

DateStrings ==
    {y \o m \o d : y \in LongYears \cup ShortYears, m \in MonthFields, d \in DayFields}
        \cup OddDates

(***************************************************************************)
(* Specifications                                                          *)
(***************************************************************************)
DiscardIdle == DiscardList = EmptyDict

SegIdle ==
    /\ paragr = <<>>
    /\ searchstart = 0
    /\ sentlist = <<>>
    /\ cuts = <<>>

DateIdle ==
    /\ dstr = <<>>
    /\ ordate = [ok |-> FALSE, val |-> 0]

TwiceIdle ==
    /\ pass = 1
    /\ firstresult = <<>>

ActorIdle ==
    /\ ActorDict = EmptyDict
    /\ ActorCodes = <<>>
    /\ codeindex = 0
    /\ curlist = <<>>
    /\ rootactor = Unbound
    /\ WriteActorRoot = FALSE

AgentIdle ==
    /\ AgentDict = EmptyDict
    /\ subdict = EmptyDict
    /\ plural = Unbound

VerbStart ==
    /\ VerbDict = DictSet(DictSet(EmptyDict, K_verbs, EmptyDict), K_phrases, EmptyDict)
    /\ theverb = <<>>
    /\ verb = <<>>
    /\ newblock = FALSE
    /\ primarycode = Unbound
    /\ noplural = FALSE

InitFIN ==
    /\ file \in Files(FINLines, MaxFileLen)
    /\ FINInit
    /\ (~found => file = <<>>)
    /\ DiscardIdle
    /\ ActorIdle
    /\ AgentIdle
    /\ VerbStart
    /\ SegIdle
    /\ DateIdle
    /\ TwiceIdle

NextFIN ==
    \/ open_FIN /\ UNCHANGED <<DiscardList, actorvars, agentvars, verbvars, segvars, datevars, twicevars>>
    \/ read_FIN_line /\ UNCHANGED <<DiscardList, actorvars, agentvars, verbvars, segvars, datevars, twicevars>>
    \/ read_FIN_comment /\ UNCHANGED <<DiscardList, actorvars, agentvars, verbvars, segvars, datevars, twicevars>>
    \/ read_discard_list /\ UNCHANGED <<actorvars, agentvars, verbvars, segvars, datevars, twicevars>>

SpecFIN == InitFIN /\ [][NextFIN]_vars

\* read_actor_dictionary starts from the tables as PETRglobals declares them
InitActor ==
    /\ file \in Files(ActorLines, MaxActorLen)
    /\ FINInit
    /\ (~found => file = <<>>)
    /\ DiscardIdle
    /\ ActorDict = EmptyDict
    /\ ActorCodes = <<>>
    /\ codeindex = 0
    /\ curlist = <<>>
    /\ rootactor = Unbound
    /\ WriteActorRoot \in BOOLEAN
    /\ AgentIdle
    /\ VerbStart
    /\ SegIdle
    /\ DateIdle
    /\ TwiceIdle

NextActor ==
    \/ open_FIN /\ UNCHANGED <<DiscardList, actorvars, agentvars, verbvars, segvars, datevars, twicevars>>
    \/ read_FIN_line /\ UNCHANGED <<DiscardList, actorvars, agentvars, verbvars, segvars, datevars, twicevars>>
    \/ read_FIN_comment /\ UNCHANGED <<DiscardList, actorvars, agentvars, verbvars, segvars, datevars, twicevars>>
    \/ read_actor_dictionary /\ UNCHANGED <<DiscardList, agentvars, verbvars, segvars, datevars, twicevars>>

SpecActor == InitActor /\ [][NextActor]_vars

\* read_actor_dictionary on a file that holds one cluster and the line after it
InitCluster ==
    /\ file \in ClusterFiles
    /\ FINInit
    /\ found
    /\ DiscardIdle
    /\ ActorDict = EmptyDict
    /\ ActorCodes = <<>>
    /\ codeindex = 0
    /\ curlist = <<>>
    /\ rootactor = Unbound
    /\ WriteActorRoot \in BOOLEAN
    /\ AgentIdle
    /\ VerbStart
    /\ SegIdle
    /\ DateIdle
    /\ TwiceIdle

SpecCluster == InitCluster /\ [][NextActor]_vars

\* read_agent_dictionary starts from an empty AgentDict and sets subdict = {}
InitAgent ==
    /\ file \in Files(AgentLines, MaxAgentLen)
    /\ FINInit
    /\ (~found => file = <<>>)
    /\ DiscardIdle
    /\ ActorIdle
    /\ AgentDict = EmptyDict
    /\ subdict = EmptyDict
    /\ plural = Unbound
    /\ VerbStart
    /\ SegIdle
    /\ DateIdle
    /\ TwiceIdle

NextAgent ==
    \/ open_FIN /\ UNCHANGED <<DiscardList, actorvars, agentvars, verbvars, segvars, datevars, twicevars>>
    \/ read_FIN_line /\ UNCHANGED <<DiscardList, actorvars, agentvars, verbvars, segvars, datevars, twicevars>>
    \/ read_FIN_comment /\ UNCHANGED <<DiscardList, actorvars, agentvars, verbvars, segvars, datevars, twicevars>>
    \/ read_agent_dictionary /\ UNCHANGED <<DiscardList, actorvars, verbvars, segvars, datevars, twicevars>>

SpecAgent == InitAgent /\ [][NextAgent]_vars

\* read_verb_dictionary sets VerbDict = {'verbs': {}, 'phrases': {}} and
\* theverb = '' before its first line
InitVerb ==
    /\ file \in Files(VerbLines, MaxVerbLen)
    /\ FINInit
    /\ (~found => file = <<>>)
    /\ DiscardIdle
    /\ ActorIdle
    /\ AgentIdle
    /\ VerbStart
    /\ SegIdle
    /\ DateIdle
    /\ TwiceIdle

NextVerb ==
    \/ open_FIN /\ UNCHANGED <<DiscardList, actorvars, agentvars, verbvars, segvars, datevars, twicevars>>
    \/ read_FIN_line /\ UNCHANGED <<DiscardList, actorvars, agentvars, verbvars, segvars, datevars, twicevars>>
    \/ read_FIN_comment /\ UNCHANGED <<DiscardList, actorvars, agentvars, verbvars, segvars, datevars, twicevars>>
    \/ read_verb_dictionary /\ UNCHANGED <<DiscardList, actorvars, agentvars, segvars, datevars, twicevars>>
    \/ read_verb_synset /\ UNCHANGED <<DiscardList, actorvars, agentvars, segvars, datevars, twicevars>>

SpecVerb == InitVerb /\ [][NextVerb]_vars

\* read_verb_dictionary on a file that starts with a block header
InitBlock ==
    /\ file \in BlockFiles
    /\ FINInit
    /\ found
    /\ DiscardIdle
    /\ ActorIdle
    /\ AgentIdle
    /\ VerbStart
    /\ SegIdle
    /\ DateIdle
    /\ TwiceIdle

SpecBlock == InitBlock /\ [][NextVerb]_vars

\* read_verb_dictionary on a file of a block header, verb lines and a synset
InitForms ==
    /\ file \in FormFiles
    /\ FINInit
    /\ found
    /\ DiscardIdle
    /\ ActorIdle
    /\ AgentIdle
    /\ VerbStart
    /\ SegIdle
    /\ DateIdle
    /\ TwiceIdle

SpecForms == InitForms /\ [][NextVerb]_vars

\* read_verb_dictionary on a file of a block header, verb lines and pattern lines
InitPattern ==
    /\ file \in PatternFiles
    /\ FINInit
    /\ found
    /\ DiscardIdle
    /\ ActorIdle
    /\ AgentIdle
    /\ VerbStart
    /\ SegIdle
    /\ DateIdle
    /\ TwiceIdle

SpecPattern == InitPattern /\ [][NextVerb]_vars

\* the statements of read_verb_dictionary before its loop (lines 874, 1057,
\* 1058); the locals primarycode and noplural are new in every call, the
\* global verb keeps its value
verb_prologue ==
    /\ VerbDict' = DictSet(DictSet(EmptyDict, K_verbs, EmptyDict), K_phrases, EmptyDict)
    /\ theverb' = <<>>
    /\ newblock' = FALSE
    /\ primarycode' = Unbound
    /\ noplural' = FALSE
    /\ UNCHANGED verb

\* the statements of read_actor_dictionary before its loop that keep
\* codeindex as the last compilation left it
actor_prologue_KeepIndex ==
    /\ curlist' = <<>>
    /\ rootactor' = Unbound
    /\ UNCHANGED <<codeindex, ActorDict, ActorCodes, WriteActorRoot>>

\* the statements of read_actor_dictionary before its loop (lines 1446-1450);
\* the local rootactor is new in every call
actor_prologue ==
    /\ codeindex' = Len(ActorCodes)
    /\ curlist' = <<>>
    /\ rootactor' = Unbound
    /\ UNCHANGED <<ActorDict, ActorCodes, WriteActorRoot>>

\* the tries and the code table
Compiled == [verbs |-> VerbDict, actors |-> ActorDict, codes |-> ActorCodes]

\* the caller keeps the result and empties the structures for the next call
fresh_structures ==
    /\ pc = "done"
    /\ pass = 1
    /\ pass' = 2
    /\ firstresult' = Compiled
    /\ pc' = "fresh"
    /\ ActorDict' = EmptyDict
    /\ ActorCodes' = <<>>
    /\ UNCHANGED <<codeindex, curlist, rootactor, WriteActorRoot>>

\* read_actor_dictionary is called again for the same file
actor_again ==
    /\ pc = "fresh"
    /\ actor_prologue
    /\ pc' = "start"
    /\ UNCHANGED <<pass, firstresult>>

\* read_verb_dictionary is called again for the same file
verb_again ==
    /\ pc = "fresh"
    /\ verb_prologue
    /\ pc' = "start"
    /\ ret' = "main"
    /\ UNCHANGED <<pass, firstresult>>

\* a program that compiles the actor file twice
NextTwice ==
    \/ open_FIN /\ UNCHANGED <<DiscardList, actorvars, agentvars, verbvars, segvars, datevars, twicevars>>
    \/ read_FIN_line /\ UNCHANGED <<DiscardList, actorvars, agentvars, verbvars, segvars, datevars, twicevars>>
    \/ read_FIN_comment /\ UNCHANGED <<DiscardList, actorvars, agentvars, verbvars, segvars, datevars, twicevars>>
    \/ read_actor_dictionary /\ UNCHANGED <<DiscardList, agentvars, verbvars, segvars, datevars, twicevars>>
    \/ fresh_structures /\ UNCHANGED <<finfields, DiscardList, agentvars, verbvars, segvars, datevars>>
    \/ actor_again /\ UNCHANGED <<finfields, DiscardList, agentvars, verbvars, segvars, datevars>>

SpecTwice == InitActor /\ [][NextTwice]_vars

\* a program that compiles the verb file twice
NextVerbTwice ==
    \/ open_FIN /\ UNCHANGED <<DiscardList, actorvars, agentvars, verbvars, segvars, datevars, twicevars>>
    \/ read_FIN_line /\ UNCHANGED <<DiscardList, actorvars, agentvars, verbvars, segvars, datevars, twicevars>>
    \/ read_FIN_comment /\ UNCHANGED <<DiscardList, actorvars, agentvars, verbvars, segvars, datevars, twicevars>>
    \/ read_verb_dictionary /\ UNCHANGED <<DiscardList, actorvars, agentvars, segvars, datevars, twicevars>>
    \/ read_verb_synset /\ UNCHANGED <<DiscardList, actorvars, agentvars, segvars, datevars, twicevars>>
    \/ fresh_structures
          /\ UNCHANGED <<finfields, DiscardList, agentvars, verbvars, segvars, datevars>>
    \/ verb_again
          /\ UNCHANGED <<file, found, FINpos, FINopen, FINnline, line, err, out,
                         DiscardList, actorvars, agentvars, segvars, datevars>>

SpecVerbTwice == InitVerb /\ [][NextVerbTwice]_vars

\* the lines of the files compiled in a row
SeriesLines == {A_primary, A_nocode, A_synonym, A_before, A_comment}

\* the caller goes on to the next actor file of its list: the tries and the
\* code table stay as the first compilation left them
next_actor_file ==
    /\ pc = "done"
    /\ pass = 1
    /\ pass' = 2
    /\ firstresult' = Compiled
    /\ file' \in Files(SeriesLines, MaxSeriesLen)
    /\ out' = <<>>
    /\ actor_prologue
    /\ pc' = "start"
    /\ UNCHANGED <<found, FINpos, FINopen, FINnline, line, ret, err>>

InitSeries ==
    /\ file \in Files(SeriesLines, MaxSeriesLen)
    /\ FINInit
    /\ found
    /\ DiscardIdle
    /\ ActorDict = EmptyDict
    /\ ActorCodes = <<>>
    /\ codeindex = 0
    /\ curlist = <<>>
    /\ rootactor = Unbound
    /\ WriteActorRoot \in BOOLEAN
    /\ AgentIdle
    /\ VerbStart
    /\ SegIdle
    /\ DateIdle
    /\ TwiceIdle

\* a program that compiles two actor files one after the other
NextSeries ==
    \/ open_FIN /\ UNCHANGED <<DiscardList, actorvars, agentvars, verbvars, segvars, datevars, twicevars>>
    \/ read_FIN_line /\ UNCHANGED <<DiscardList, actorvars, agentvars, verbvars, segvars, datevars, twicevars>>
    \/ read_FIN_comment /\ UNCHANGED <<DiscardList, actorvars, agentvars, verbvars, segvars, datevars, twicevars>>
    \/ read_actor_dictionary /\ UNCHANGED <<DiscardList, agentvars, verbvars, segvars, datevars, twicevars>>
    \/ next_actor_file /\ UNCHANGED <<DiscardList, agentvars, verbvars, segvars, datevars>>

SpecSeries == InitSeries /\ [][NextSeries]_vars

FINIdle ==
    /\ file = <<>>
    /\ found = FALSE
    /\ FINpos = 0
    /\ FINopen = FALSE
    /\ FINnline = 0
    /\ line = <<>>
    /\ ret = "main"
    /\ err = "none"
    /\ out = <<>>

\* _sentence_segmenter is called with a paragraph; sentlist = [], searchstart = 0
InitSeg ==
    /\ paragr \in Paragraphs
    /\ searchstart = 0
    /\ sentlist = <<>>
    /\ cuts = <<>>
    /\ pc = "seg_loop"
    /\ FINIdle
    /\ DiscardIdle
    /\ ActorIdle
    /\ AgentIdle
    /\ VerbStart
    /\ DateIdle
    /\ TwiceIdle

NextSeg ==
    \/ segment_candidate /\ UNCHANGED <<finfields, DiscardList, actorvars, agentvars, verbvars, datevars, twicevars>>
    \/ segment_final /\ UNCHANGED <<finfields, DiscardList, actorvars, agentvars, verbvars, datevars, twicevars>>

SpecSeg == InitSeg /\ [][NextSeg]_vars

\* _sentence_segmenter on a paragraph with parentheses and quotations
InitParen ==
    /\ paragr \in ParenParagraphs
    /\ searchstart = 0
    /\ sentlist = <<>>
    /\ cuts = <<>>
    /\ pc = "seg_loop"
    /\ FINIdle
    /\ DiscardIdle
    /\ ActorIdle
    /\ AgentIdle
    /\ VerbStart
    /\ DateIdle
    /\ TwiceIdle

SpecParen == InitParen /\ [][NextSeg]_vars

InitDate ==
    /\ dstr \in DateStrings
    /\ ordate = [ok |-> FALSE, val |-> 0]
    /\ pc = "date_call"
    /\ FINIdle
    /\ DiscardIdle
    /\ ActorIdle
    /\ AgentIdle
    /\ VerbStart
    /\ SegIdle
    /\ TwiceIdle

NextDate ==
    call_dstr_to_ordate
        /\ UNCHANGED <<finfields, DiscardList, actorvars, agentvars, verbvars, segvars, twicevars>>

SpecDate == InitDate /\ [][NextDate]_vars

(***************************************************************************)
(* Properties of the line source                                           *)
(***************************************************************************)
RECURSIVE Concat(_)
Concat(f) == IF f = <<>> THEN <<>> ELSE Head(f) \o Concat(Tail(f))

\* position p (from 0) of text t lies between a <!-- and the next -->
InCommentSpan(t, p) ==
    \E o \in 0..(p - 4) :
        /\ Slice(t, o, o + 4) = CommentOpen
        /\ FindFrom(t, CommentClose, o + 4) > p

\* every letter c of the file is comment text
CommentTextMarked ==
    \A p \in 0..(Len(Concat(file)) - 1) :
        At(Concat(file), p) = "c" => InCommentSpan(Concat(file), p)

\* C3: read_FIN_line terminates on every finite file: while it looks for the
\* --> that closes a comment, every test of the loop either takes a further
\* line of the file or leaves the loop, so the search ends with the file also
\* when no --> follows.
C3_ReadReturns ==
    [][pc = "rd_scan" => (FINpos' > FINpos \/ pc' # "rd_scan")]_vars

\* C4: no text lying between a <!-- and the next --> is part of a line that
\* read_FIN_line returns, wherever the comment opens and closes.
C4_NoCommentText ==
    CommentTextMarked => \A i \in 1..Len(out) : ~In(<<"c">>, out[i])

\* C5: every line returned before end-of-input is non-blank and holds no #,
\* the line that follows a multi-line comment included, and the empty line
\* is returned only when the file is exhausted.
C5_CleanLines ==
    \A i \in 1..Len(out) :
        IF out[i] = <<>>
        THEN i = Len(out) /\ FINpos = Len(file)
        ELSE Len(Strip(out[i])) > 0 /\ ~In(<<"#">>, out[i])

(***************************************************************************)
(* Properties of the compilers                                             *)
(***************************************************************************)
\* the lines the compiler has handled: at its loop test, and when it has
\* stopped inside the body, the last line returned is not handled (yet)
Handled ==
    IF pc \in {"loop", "crashed", "exited"} THEN SubSeq(out, 1, Len(out) - 1) ELSE out

\* C1: at the end of read_actor_dictionary every cluster of the file, the
\* last one included, has its code list in ActorCodes at the index its
\* phrases carry, so every index stored in ActorDict is an index of ActorCodes.
C1_TrailingClusterStored ==
    pc = "done" =>
        /\ \A k \in DOMAIN ActorDict : \A i \in 1..Len(ActorDict[k]) :
               ActorDict[k][i][1] < Len(ActorCodes)
        /\ Len(curlist) > 0 =>
               /\ codeindex < Len(ActorCodes)
               /\ ActorCodes[codeindex + 1] = FinishedList

\* C2: whatever the lines of a file that exists, the compiler handles the
\* file up to end-of-input and returns: no exception and no exit stop it.
C2_CompilerFinishes == found => pc \notin {"crashed", "exited"}

\* C6: however a compiler ends after a successful open, by returning or by
\* an exception, the stream is closed when control leaves it.
C6_StreamClosed == pc \in {"done", "crashed"} => ~FINopen

(***************************************************************************)
(* C7: verb and pattern resolution                                         *)
(***************************************************************************)
\* the payload stored for the one-word verb form v
VerbEntry(v) == VerbDict[K_verbs][v][K_hash][K_hash]
HasVerbEntry(v) ==
    /\ v \in DOMAIN VerbDict[K_verbs]
    /\ K_hash \in DOMAIN VerbDict[K_verbs][v]
    /\ K_hash \in DOMAIN VerbDict[K_verbs][v][K_hash]

\* the code of verb form v on its own
VerbCode(v) == UnStr(VerbEntry(v)[K_code])

\* verb form v followed by the word w: the pattern trie of the meaning of v
\* is walked through w to the end of the lower and of the upper phrase
HasPatternCode(v, w) ==
    LET m == UnStr(VerbEntry(v)[K_meaning])
        ph == VerbDict[K_phrases]
    IN  /\ m \in DOMAIN ph
        /\ w \in DOMAIN ph[m]
        /\ K_hash \in DOMAIN ph[m][w]
        /\ K_hash \in DOMAIN ph[m][w][K_hash]
PatternCode(v, w) ==
    UnStr(VerbDict[K_phrases][UnStr(VerbEntry(v)[K_meaning])][w][K_hash][K_hash][K_code])

IsHeaderLine(l) == StartsWith(LineVerb(l), <<"-", "-", "-">>)
IsPatternLine(l) == ~IsHeaderLine(l) /\ StartsWith(LineVerb(l), <<"-">>)
IsSynsetLine(l) == StartsWith(LineVerb(l), <<"&">>)

\* a line holding one verb word and nothing else
IsPlainVerbLine(l) ==
    /\ Len(Strip(l)) > 0
    /\ \A i \in 1..Len(Strip(l)) :
           Strip(l)[i] \notin {"-", "&", "+", "[", "]", "{", "}", "_", " ", "*", "<", "!"}

\* a pattern line  - * W [P]
IsLowerWordPattern(l) ==
    /\ IsPatternLine(l)
    /\ Len(LineCode(l)) > 0
    /\ StartsWith(LineVerb(l), <<"-", " ", "*", " ">>)
    /\ IsPlainVerbLine(From(LineVerb(l), 4))
PatternWord(l) == From(LineVerb(l), 4)

\* lines h < i < k of the handled lines: a block header with a code, a plain
\* verb line of that block, and a pattern line - * W [P] of that block that
\* was the last line handled; the lines between the verb and the pattern
\* carry no code of their own unless they are patterns
VerbThenPattern(h, i, k) ==
    /\ h < i /\ i < k /\ k = Len(Handled)
    /\ IsHeaderLine(Handled[h]) /\ Len(LineCode(Handled[h])) > 0
    /\ \A j \in (h + 1)..k : ~IsHeaderLine(Handled[j])
    /\ IsPlainVerbLine(Handled[i])
    /\ IsLowerWordPattern(Handled[k])
    /\ \A j \in (i + 1)..(k - 1) :
           IsPatternLine(Handled[j]) \/ ~In(<<"[">>, Handled[j])

\* C7: for a block with header code D, a verb line V without its own code
\* and a later pattern line - * W [P] of the block, once the pattern line is
\* handled V followed by W resolves to P and V on its own resolves to D.
C7_PatternResolves ==
    \A h, i, k \in 1..Len(Handled) :
        VerbThenPattern(h, i, k) =>
            /\ HasVerbEntry(Strip(Handled[i]))
            /\ VerbCode(Strip(Handled[i])) = LineCode(Handled[h])
            /\ HasPatternCode(Strip(Handled[i]), PatternWord(Handled[k]))
            /\ PatternCode(Strip(Handled[i]), PatternWord(Handled[k])) = LineCode(Handled[k])

C7_Witness ==
    /\ \E h, i, k \in 1..Len(Handled) : VerbThenPattern(h, i, k)
    /\ HasVerbEntry(<<"G", "O">>)
    /\ HasPatternCode(<<"G", "O">>, <<"R">>)
    /\ PatternCode(<<"G", "O">>, <<"R">>) = <<"9">>

(***************************************************************************)
(* C8: resolution of a cluster's code list for an event date               *)
(***************************************************************************)
\* the date predicate of a code-list entry; every restriction includes its
\* end points
Contains(x, d) ==
    IF "tag" \notin DOMAIN x THEN TRUE
    ELSE IF x.tag = 0 THEN d <= x.ord
    ELSE IF x.tag = 1 THEN d >= x.ord
    ELSE x.ord1 <= d /\ d <= x.ord2

IsRestricted(x) == "tag" \in DOMAIN x

NoMatch == [found |-> FALSE, code |-> <<>>]
Match(c) == [found |-> TRUE, code |-> c]

\* the first entry in list order whose date predicate contains d
ResolveFirstMatch(list, d) ==
    LET hits == {i \in 1..Len(list) : Contains(list[i], d)}
    IN  IF hits = {} THEN NoMatch ELSE Match(list[SetMin(hits)].code)

\* the first date restriction in list order that contains d; the
\* unrestricted code is the default when no restriction is satisfied
ResolveDefaultLast(list, d) ==
    LET hits == {i \in 1..Len(list) : IsRestricted(list[i]) /\ Contains(list[i], d)}
        defaults == {i \in 1..Len(list) : ~IsRestricted(list[i])}
    IN  IF hits # {} THEN Match(list[SetMin(hits)].code)
        ELSE IF defaults # {} THEN Match(list[SetMin(defaults)].code)
        ELSE NoMatch

IsDateLine(l) == Len(l) > 0 /\ l[1] = "\t"
IsPrimaryLine(l) == Len(l) > 0 /\ l[1] \notin {"\t", "+"}

\* the code a primary line carries between its brackets
PrimaryCode(l) == Strip(Slice(l, Find(l, <<"[">>) + 1, Find(l, <<"]">>)))

\* the interval entry a date line states
StatedInterval(l) == DateRestriction(l).entry

\* lines h < k of the handled lines: a primary line with a code, and a date
\* line of its cluster stating a valid interval that was the last line handled
ClusterWithInterval(h, k) ==
    /\ h < k /\ k = Len(Handled)
    /\ IsPrimaryLine(Handled[h])
    /\ In(<<"[">>, Handled[h]) /\ In(<<"]">>, Handled[h])
    /\ \A j \in (h + 1)..k : Len(Handled[j]) > 0 /\ ~IsPrimaryLine(Handled[j])
    /\ IsDateLine(Handled[k])
    /\ ~DateRestriction(Handled[k]).skip
    /\ IsRestricted(StatedInterval(Handled[k]))
    /\ StatedInterval(Handled[k]).tag = 2

\* the dates the entries of a list name, and their neighbours
ProbeDates(list) ==
    UNION {IF ~IsRestricted(list[i]) THEN {}
           ELSE IF list[i].tag = 2
           THEN {list[i].ord1 - 1, list[i].ord1, list[i].ord2, list[i].ord2 + 1}
           ELSE {list[i].ord - 1, list[i].ord, list[i].ord + 1} : i \in 1..Len(list)}

\* the open cluster has date restrictions and no unrestricted entry
OnlyRestrictions ==
    /\ pc \in {"rd_loop", "rd_scan", "loop"}
    /\ Len(curlist) > 0
    /\ \A i \in 1..Len(curlist) : IsRestricted(curlist[i])

AgentPhrase(l) == Partition(l, <<"[">>)[1]

\* an agent line with a code whose phrase holds a marker !NAME!
MarkerUse(l) ==
    /\ Len(l) > 0
    /\ ~(In(<<"!">>, l) /\ In(<<"=">>, l))
    /\ In(<<"[">>, l)
    /\ In(<<"!">>, AgentPhrase(l))
    /\ In(<<"!">>, Partition(AgentPhrase(l), <<"!">>)[3])

MarkerName(l) == Partition(Partition(AgentPhrase(l), <<"!">>)[3], <<"!">>)[1]

\* the entries of the agent trie: keyword and phrase list
Entries(d) == UNION {{<<k, d[k][i]>> : i \in 1..Len(d[k])} : k \in DOMAIN d}

RECURSIVE CountIn(_, _)
CountIn(d, keys) ==
    IF keys = {} THEN 0
    ELSE LET k == CHOOSE x \in keys : TRUE
         IN  Len(d[k]) + CountIn(d, keys \ {k})
EntryCount(d) == CountIn(d, DOMAIN d)

\* the entry holds a '!' in its keyword or in a later word
HoldsMarker(e) ==
    \/ In(<<"!">>, e[1])
    \/ \E i \in 3..Len(e[2]) : In(<<"!">>, e[2][i][1])

\* C9: handling a line with a marker whose set was defined with n members
\* adds exactly n entries to the agent trie and the compiler goes on; none of
\* the entries the line adds holds the marker text.
C9_MarkerExpands ==
    [][(pc = "loop" /\ MarkerUse(line) /\ MarkerName(line) \in DOMAIN subdict)
       => /\ pc' = "rd_loop"
          /\ EntryCount(AgentDict') = EntryCount(AgentDict) + Len(subdict[MarkerName(line)])
          /\ \A e \in Entries(AgentDict') \ Entries(AgentDict) : ~HoldsMarker(e)]_vars

\* C10: handling a line whose marker was not defined earlier leaves the agent
\* trie as it was and the compiler goes on to the next line.
C10_UndefinedMarkerSkipped ==
    [][(pc = "loop" /\ MarkerUse(line) /\ MarkerName(line) \notin DOMAIN subdict)
       => /\ pc' = "rd_loop"
          /\ AgentDict' = AgentDict]_vars

(***************************************************************************)
(* C11: a pattern that names an undefined synset                           *)
(***************************************************************************)
\* a pattern line one of whose words is a synset reference &NAME that
\* VerbDict does not hold
NamesUndefinedSynset(l) ==
    /\ Len(l) > 0
    /\ IsPatternLine(l)
    /\ ~In(<<"{">>, LineVerb(l))
    /\ \E i \in 1..Len(Split(LineVerb(l))) :
           /\ Split(LineVerb(l))[i][1] = "&"
           /\ Split(LineVerb(l))[i] \notin DOMAIN VerbDict

\* C11: handling a pattern line that names a synset not yet defined skips
\* that pattern only: the verb structures are as before the line and the
\* compiler goes on to read the following line.
C11_UndefinedSynsetSkipped ==
    [][(pc = "loop" /\ ret = "main" /\ NamesUndefinedSynset(line))
       => /\ VerbDict' = VerbDict
          /\ pc' = "rd_loop"]_vars

(***************************************************************************)
(* Properties of the segmenter                                             *)
(***************************************************************************)
\* C12: every sentence in the output of the segmenter, the final tail
\* included, is longer than 100 and shorter than 512 characters.
C12_SentenceLengths ==
    \A i \in 1..Len(sentlist) :
        Len(sentlist[i]) > MIN_SENTLENGTH /\ Len(sentlist[i]) < MAX_SENTLENGTH

\* the text ends in a period that closes a word whose lower-cased form is
\* in the abbreviation list
EndsWithListedWord(t) ==
    /\ Len(t) > 0
    /\ t[Len(t)] = "."
    /\ LET sp == {i \in 1..Len(t) : IsSpace(t[i])}
           word == IF sp = {} THEN t ELSE SubSeq(t, SetMax(sp) + 1, Len(t))
       IN  Lower(word) \in ABBREV_LIST

\* C13: the segmenter ends no sentence at a period that closes a word of the
\* abbreviation list, also when that word is the first word of the paragraph
\* or of the text left after a split.
C13_NoSplitAtAbbreviation ==
    \A i \in 1..Len(cuts) : ~EndsWithListedWord(cuts[i])

(***************************************************************************)
(* Properties of dstr_to_ordate                                            *)
(***************************************************************************)
DigitOf(c) == (CHOOSE k \in 1..10 : <<"0", "1", "2", "3", "4", "5", "6", "7", "8", "9">>[k] = c) - 1

\* the number a field of digits writes
RECURSIVE FieldValue(_)
FieldValue(f) ==
    IF f = <<>> THEN 0
    ELSE 10 * FieldValue(SubSeq(f, 1, Len(f) - 1)) + DigitOf(f[Len(f)])

\* a string of the form YYMMDD or YYYYMMDD
SixOrEightDigits(d) ==
    /\ Len(d) \in {6, 8}
    /\ \A i \in 1..Len(d) : IsDigit(d[i])

\* the year, month and day such a string denotes: two-digit years 00-30 are
\* 2000-2030 and 31-99 are 1931-1999
YearOf(d) ==
    IF Len(d) = 8 THEN FieldValue(SubSeq(d, 1, 4))
    ELSE IF FieldValue(SubSeq(d, 1, 2)) <= 30 THEN 2000 + FieldValue(SubSeq(d, 1, 2))
    ELSE 1900 + FieldValue(SubSeq(d, 1, 2))
MonthOf(d) == FieldValue(SubSeq(d, Len(d) - 3, Len(d) - 2))
DayOf(d) == FieldValue(SubSeq(d, Len(d) - 1, Len(d)))

\* the Gregorian calendar
IsLeapYear(y) == y % 400 = 0 \/ (y % 100 # 0 /\ y % 4 = 0)
DaysInMonth(y, m) ==
    IF m = 2 THEN (IF IsLeapYear(y) THEN 29 ELSE 28)
    ELSE IF m \in {4, 6, 9, 11} THEN 30
    ELSE 31

\* the string denotes a day of the calendar
RealDate(d) ==
    /\ SixOrEightDigits(d)
    /\ MonthOf(d) \in 1..12
    /\ DayOf(d) \in 1..DaysInMonth(YearOf(d), MonthOf(d))

\* the first denotes an earlier day than the second
Earlier(d1, d2) ==
    \/ YearOf(d1) < YearOf(d2)
    \/ YearOf(d1) = YearOf(d2) /\ MonthOf(d1) < MonthOf(d2)
    \/ YearOf(d1) = YearOf(d2) /\ MonthOf(d1) = MonthOf(d2) /\ DayOf(d1) < DayOf(d2)

RECURSIVE DaysBeforeMonth(_, _)
DaysBeforeMonth(y, m) ==
    IF m <= 1 THEN 0 ELSE DaysBeforeMonth(y, m - 1) + DaysInMonth(y, m - 1)

\* the days counted one by one from 1 January 1601, which is day 1
DayNumber(y, m, d) ==
    365 * (y - 1601) + Cardinality({k \in 1601..(y - 1) : IsLeapYear(k)})
        + DaysBeforeMonth(y, m) + d

\* C14: dstr_to_ordate is strictly monotonic on valid dates: a valid date
\* string that denotes an earlier day than the one just converted gives a
\* strictly smaller ordinal.
C14_Monotonic ==
    (pc = "date_done" /\ RealDate(dstr)) =>
        /\ ordate.ok
        /\ \A d \in DateStrings :
               (RealDate(d) /\ Earlier(d, dstr)) =>
                   /\ dstr_to_ordate(d).ok
                   /\ dstr_to_ordate(d).val < ordate.val

\* 1 March 2012 is converted, one more than 29 February 2012
C14_Witness ==
    /\ pc = "date_done"
    /\ dstr = <<"2", "0", "1", "2", "0", "3", "0", "1">>
    /\ ordate.ok
    /\ ordate.val = dstr_to_ordate(<<"2", "0", "1", "2", "0", "2", "2", "9">>).val + 1

\* C15: for a valid date of 1931-2030 the six-digit form gives the ordinal
\* of the eight-digit form, two-digit years 00-30 being 2000-2030 and 31-99
\* being 1931-1999.
C15_TwoDigitYears ==
    (pc = "date_done" /\ RealDate(dstr) /\ Len(dstr) = 6) =>
        /\ ordate.ok
        /\ \A d \in DateStrings :
               (RealDate(d) /\ Len(d) = 8 /\ YearOf(d) = YearOf(dstr)
                    /\ MonthOf(d) = MonthOf(dstr) /\ DayOf(d) = DayOf(dstr))
                   => dstr_to_ordate(d) = ordate

\* 300101 is converted as 20300101
C15_Witness ==
    /\ pc = "date_done"
    /\ dstr = <<"3", "0", "0", "1", "0", "1">>
    /\ ordate.ok
    /\ ordate = dstr_to_ordate(<<"2", "0", "3", "0", "0", "1", "0", "1">>)

\* C16: for a date string of digits with month in 1..12, DateError is raised
\* exactly when the day is 0 or exceeds the days of that month in that year
\* under the Gregorian leap rule; 20100931 and 20100229 fail, 20120229 does
\* not.
C16_DayBounds ==
    pc = "date_done" =>
        /\ (SixOrEightDigits(dstr) /\ MonthOf(dstr) \in 1..12) =>
               (~ordate.ok <=>
                    (DayOf(dstr) = 0
                         \/ DayOf(dstr) > DaysInMonth(YearOf(dstr), MonthOf(dstr))))
        /\ dstr = <<"2", "0", "1", "0", "0", "9", "3", "1">> => ~ordate.ok
        /\ dstr = <<"2", "0", "1", "0", "0", "2", "2", "9">> => ~ordate.ok
        /\ dstr = <<"2", "0", "1", "2", "0", "2", "2", "9">> => ordate.ok

\* 29 February 1900 is refused
C16_Witness ==
    /\ pc = "date_done"
    /\ dstr = <<"1", "9", "0", "0", "0", "2", "2", "9">>
    /\ ~ordate.ok

\* C17: for a valid date dstr_to_ordate gives the Julian day number minus
\* 2305813, which is the number of the day counted from 1 January 1601 as
\* day 1; 20130926 gives 2456562 - 2305813.
C17_JulianDay ==
    pc = "date_done" =>
        /\ RealDate(dstr) =>
               /\ ordate.ok
               /\ ordate.val = DayNumber(YearOf(dstr), MonthOf(dstr), DayOf(dstr))
        /\ dstr = <<"1", "6", "0", "1", "0", "1", "0", "1">> => ordate.val = 1
        /\ dstr = <<"2", "0", "1", "3", "0", "9", "2", "6">> =>
               ordate.val = 2456562 - 2305813

\* 26 September 2013 is converted
C17_Witness ==
    /\ pc = "date_done"
    /\ dstr = <<"2", "0", "1", "3", "0", "9", "2", "6">>
    /\ ordate = [ok |-> TRUE, val |-> 150749]

(***************************************************************************)
(* C18: an agent and its regular plural                                    *)
(***************************************************************************)
\* an agent line with a code and a phrase, without braces and markers
PlainAgentLine(l) ==
    /\ Len(l) > 0
    /\ In(<<"[">>, l) /\ In(<<"]">>, l)
    /\ ~In(<<"{">>, AgentPhrase(l))
    /\ ~In(<<"!">>, l)
    /\ Len(Strip(AgentPhrase(l))) > 0

\* the plural the rules give for a phrase
PluralBySuffix(ph) ==
    IF ph[Len(ph)] = "Y" THEN SubSeq(ph, 1, Len(ph) - 1) \o <<"I", "E", "S">>
    ELSE IF ph[Len(ph)] = "S" THEN ph \o <<"E", "S">>
    ELSE ph \o <<"S">>

\* the code between the brackets of an agent line
AgentCode(l) == Strip(Slice(l, Find(l, <<"[">>) + 1, Find(l, <<"]">>)))

\* the agent trie holds the phrase with the code
HoldsAgent(d, ph, code) ==
    LET nounlist == make_noun_list(ph \o <<" ">>)
    IN  /\ nounlist[1][1] \in DOMAIN d
        /\ \E i \in 1..Len(d[nounlist[1][1]]) :
               d[nounlist[1][1]][i] = PhraseList(code, nounlist)

IsPayload(n) == DOMAIN n = {K_meaning, K_code, K_line}

\* the key sequences that lead from the root of a trie to one of its nodes
\* or payloads
RECURSIVE KeyPaths(_)
KeyPaths(d) ==
    IF IsPayload(d) THEN {<<>>}
    ELSE {<<>>} \cup UNION {{<<k>> \o p : p \in KeyPaths(d[k])} : k \in DOMAIN d}

\* what a key sequence leads to
RECURSIVE NodeAt(_, _)
NodeAt(d, p) == IF p = <<>> THEN d ELSE NodeAt(d[Head(p)], Tail(p))

\* the words of a phrase in the order given, blanks left out
RECURSIVE WordsOf(_)
WordsOf(targ) ==
    IF targ = <<>> THEN <<>>
    ELSE IF Head(targ) \in {<<" ">>, <<>>} THEN WordsOf(Tail(targ))
    ELSE <<Head(targ)>> \o WordsOf(Tail(targ))

\* the keys a lookup follows for words taken in order: a synset reference
\* is looked up in the synsets bin of the node
RECURSIVE KeysOf(_)
KeysOf(words) ==
    IF words = <<>> THEN <<>>
    ELSE (IF Head(words)[1] = "&" THEN <<K_synsets>> ELSE <<>>)
         \o <<Head(words)>> \o KeysOf(Tail(words))

\* the keys from the root of a trie to the payload of a phrase: the verb,
\* the lower words in order, the end of the lower words, the upper words
\* from the last to the first, the end of the phrase
PhraseKeys(v, targ, upper) ==
    <<v>> \o KeysOf(WordsOf(targ)) \o <<K_hash>>
          \o KeysOf(Reverse(WordsOf(upper))) \o <<K_hash>>

\* the payloads of a trie with the key sequences that lead to them
Phrases(trie) == {p \in KeyPaths(trie) : IsPayload(NodeAt(trie, p))}

\* the calls of add_dict_tree that are tried on every trie
ProbeVerbs == {<<"G", "O">>, <<"B", "E">>}
ProbeLower == {<<>>, <<<<"R">>>>, <<<<"R">>, <<" ">>, <<"T">>>>}
ProbeUpper == {<<>>, <<<<"A">>, <<" ">>, <<"&", "S">>>>}
ProbePayload == Payload(<<"G", "O">>, <<"5">>, <<"G", "O", "\n">>)
ProbeTree(vd, v, targ, upper, dict) ==
    add_dict_tree(vd, targ, v, <<"G", "O">>, <<"5">>, upper, dict, <<"G", "O", "\n">>)

\* C20: whatever insertions have built the verb tries, one more call of
\* add_dict_tree leaves every node and every phrase where it was, changes no
\* payload but the one of the identical phrase, leaves the other trie alone,
\* and makes the inserted phrase reachable by its words in order; the
\* phrases under one verb run through the node of that verb.
C20_TrieGrows ==
    \A dict \in {K_verbs, K_phrases} :
        LET old == VerbDict[dict]
            oldpaths == KeyPaths(old)
            oldphrases == {p \in oldpaths : IsPayload(NodeAt(old, p))}
        IN  \A v \in ProbeVerbs, targ \in ProbeLower, upper \in ProbeUpper :
                LET newdict == ProbeTree(VerbDict, v, targ, upper, dict)
                    new == newdict[dict]
                    newpaths == KeyPaths(new)
                    keys == PhraseKeys(v, targ, upper)
                IN  /\ oldpaths \subseteq newpaths
                    /\ keys \in newpaths
                    /\ NodeAt(new, keys) = ProbePayload
                    /\ \A p \in oldphrases :
                           p # keys => NodeAt(new, p) = NodeAt(old, p)
                    /\ \A p \in newpaths \ oldpaths :
                           \E n \in 1..Len(keys) : p = SubSeq(keys, 1, n)
                    /\ DOMAIN newdict = DOMAIN VerbDict
                    /\ \A k \in DOMAIN VerbDict : k # dict => newdict[k] = VerbDict[k]

\* the compiler has stored a verb and a pattern under it: two phrases that
\* share the node of the verb
C20_Witness ==
    /\ pc = "rd_loop"
    /\ \E v \in DOMAIN VerbDict[K_phrases] :
           /\ Cardinality({p \in Phrases(VerbDict[K_phrases]) : p[1] = v}) > 1
           /\ \E p \in Phrases(VerbDict[K_phrases]) : Len(p) > 3 /\ p[1] = v
    /\ Phrases(VerbDict[K_verbs]) # {}

(***************************************************************************)
(* C21: a tab-indented line that is rejected                               *)
(***************************************************************************)
\* what a tab-indented line writes between its brackets: the code, and the
\* dates after <, after >, or on the two sides of -
Bracketed(l) == Strip(Slice(l, Find(l, <<"[">>) + 1, Find(l, <<"]">>)))
WrittenCode(l) == Partition(Bracketed(l), <<" ">>)[1]
WrittenRest(l) == LStrip(Partition(Bracketed(l), <<" ">>)[3])
WrittenDates(l) ==
    LET r == WrittenRest(l)
    IN  IF r = <<>> THEN <<>>
        ELSE IF r[1] \in {"<", ">"} THEN <<Strip(From(r, 1))>>
        ELSE IF In(<<"-">>, r)
        THEN <<Strip(Partition(r, <<"-">>)[1]), Strip(Partition(r, <<"-">>)[3])>>
        ELSE <<>>

\* a date of the line denotes no day of the calendar
Unconvertible(l) ==
    \E i \in 1..Len(WrittenDates(l)) : ~RealDate(WrittenDates(l)[i])

\* the line writes an interval whose end is an earlier day than its start
EndBeforeStart(l) ==
    /\ Len(WrittenDates(l)) = 2
    /\ ~Unconvertible(l)
    /\ Earlier(WrittenDates(l)[2], WrittenDates(l)[1])

RejectedLine(l) == IsDateLine(l) /\ (Unconvertible(l) \/ EndBeforeStart(l))

\* a rejected line has been handled in the cluster that is still open
RejectedEarlier ==
    \E j \in 1..Len(Handled) :
        /\ RejectedLine(Handled[j])
        /\ \A i \in j..Len(Handled) : IsDateLine(Handled[i])

\* C21: handling a tab-indented line whose date raises DateError or whose
\* interval ends before it starts changes neither curlist nor ActorCodes nor
\* ActorDict and goes on to the next line; a tab-indented line accepted
\* later in the same cluster is appended to curlist.
C21_RejectedLineSkipped ==
    [][/\ (pc = "loop" /\ RejectedLine(line))
          => /\ curlist' = curlist
             /\ ActorCodes' = ActorCodes
             /\ ActorDict' = ActorDict
             /\ pc' = "rd_loop"
       /\ (pc = "loop" /\ IsDateLine(line) /\ ~RejectedLine(line) /\ RejectedEarlier)
          => /\ Len(curlist') = Len(curlist) + 1
             /\ SubSeq(curlist', 1, Len(curlist)) = curlist
             /\ pc' = "rd_loop"]_vars

\* K [M], a line with 31 February, then [B <791227]: the list holds M and B
C21_Witness ==
    /\ Handled = <<A_primary, A_baddate, A_before>>
    /\ pc = "rd_loop"
    /\ Len(curlist) = 2
    /\ curlist[1] = Unrestricted(<<"M">>)
    /\ curlist[2].code = <<"B">>
    /\ ActorCodes = <<>>

(***************************************************************************)
(* C22: the two ordinals of an Interval entry                              *)
(***************************************************************************)
IsInterval(e) == "tag" \in DOMAIN e /\ e.tag = 2

\* the entries of curlist and of every list of the code table
HeldEntries ==
    {curlist[i] : i \in 1..Len(curlist)}
        \cup UNION {{ActorCodes[k][i] : i \in 1..Len(ActorCodes[k])} :
                        k \in 1..Len(ActorCodes)}

\* the day a written date denotes, counted from 1 January 1601
WrittenDay(d) == DayNumber(YearOf(d), MonthOf(d), DayOf(d))

IntervalsOrdered == \A e \in HeldEntries : IsInterval(e) => e.ord2 >= e.ord1

\* C22: every Interval entry of curlist or of the code table has
\* end >= start, and whenever a line that writes two calendar dates makes
\* curlist longer, the entry appended holds the day of the first date as
\* start and the day of the second as end.
C22_IntervalOrdered ==
    /\ []IntervalsOrdered
    /\ [][(/\ pc = "loop"
           /\ IsDateLine(line)
           /\ Len(WrittenDates(line)) = 2
           /\ ~Unconvertible(line)
           /\ Len(curlist') > Len(curlist))
          => /\ IsInterval(curlist'[Len(curlist')])
             /\ curlist'[Len(curlist')].ord1 = WrittenDay(WrittenDates(line)[1])
             /\ curlist'[Len(curlist')].ord2 = WrittenDay(WrittenDates(line)[2])]_vars

\* K [M] with 791227-861124 and then 861124-791227, closed by the next
\* primary line: the code table holds the one interval, start before end
C22_Witness ==
    /\ Handled = <<A_primary, A_interval, A_reversed, A_primary>>
    /\ Len(ActorCodes) = 1
    /\ Cardinality({i \in 1..Len(ActorCodes[1]) : IsInterval(ActorCodes[1][i])}) = 1
    /\ IsInterval(ActorCodes[1][2])
    /\ ActorCodes[1][2].ord1 = WrittenDay(<<"7", "9", "1", "2", "2", "7">>)
    /\ ActorCodes[1][2].ord2 = WrittenDay(<<"8", "6", "1", "1", "2", "4">>)
    /\ ActorCodes[1][2].ord1 < ActorCodes[1][2].ord2

(***************************************************************************)
(* C23: synonym lines                                                      *)
(***************************************************************************)
IsSynonymLine(l) == Len(l) > 0 /\ l[1] = "+" /\ ~In(StopSentinel, l)

\* the phrase a primary line and a synonym line write
PrimaryPhrase(l) ==
    IF In(<<"[">>, l) THEN Strip(UpTo(l, Find(l, <<"[">>)))
    ELSE Strip(UpTo(l, Find(l, <<";">>)))
SynonymPhrase(l) == Strip(UpTo(From(l, 1), Find(From(l, 1), <<";">>)))

\* the keyword of a phrase, and whether an entry of the trie spells the phrase
KeywordOf(ph) == make_noun_list(ph \o <<" ">>)[1][1]
Spells(e, ph) == e = PhraseList(e[1], make_noun_list(ph \o <<" ">>))

\* the primary line of the open cluster, 0 when no primary line was handled
OpenPrimary ==
    LET hs == {h \in 1..Len(Handled) : IsPrimaryLine(Handled[h])}
    IN  IF hs = {} THEN 0 ELSE SetMax(hs)

\* the code-list index the trie holds for the primary phrase of the open cluster
OpenPrimaryIndex ==
    LET ph == PrimaryPhrase(Handled[OpenPrimary])
        list == ActorDict[KeywordOf(ph)]
        at == SetMax({i \in 1..Len(list) : Spells(list[i], ph)})
    IN  list[at][1]

\* C23: handling a synonym line appends one entry to the trie, spelling the
\* synonym and carrying the code-list index the trie holds for the primary
\* phrase of the cluster; the code table, curlist and codeindex stay as they
\* are.
C23_SynonymSharesIndex ==
    [][(pc = "loop" /\ IsSynonymLine(line)) =>
          LET ph == SynonymPhrase(line)
              kw == KeywordOf(ph)
              before == IF kw \in DOMAIN ActorDict THEN ActorDict[kw] ELSE <<>>
          IN  /\ ActorCodes' = ActorCodes
              /\ curlist' = curlist
              /\ codeindex' = codeindex
              /\ DOMAIN ActorDict' = DOMAIN ActorDict \cup {kw}
              /\ \A k \in DOMAIN ActorDict : k # kw => ActorDict'[k] = ActorDict[k]
              /\ Len(ActorDict'[kw]) = Len(before) + 1
              /\ SubSeq(ActorDict'[kw], 1, Len(before)) = before
              /\ Spells(ActorDict'[kw][Len(before) + 1], ph)
              /\ OpenPrimary > 0 =>
                     ActorDict'[kw][Len(before) + 1][1] = OpenPrimaryIndex]_vars

\* K [M], K [M], +Y: the second cluster has index 1 and so has its synonym
C23_Witness ==
    /\ Handled = <<A_primary, A_primary, A_synonym>>
    /\ Len(ActorCodes) = 1
    /\ Len(curlist) = 1
    /\ ActorDict[<<"Y">>][1][1] = 1
    /\ ActorDict[<<"K">>][2][1] = 1

(***************************************************************************)
(* C24: the sentinel of the actor file                                     *)
(***************************************************************************)
\* the last line read_FIN_line returned contains ---STOP---
SentinelRead ==
    /\ Len(out) > 0
    /\ In(StopSentinel, out[Len(out)])
    /\ pc \in {"loop", "done"}

\* C24: once read_FIN_line has returned a line containing ---STOP---, the
\* only step the compiler takes closes the stream and returns with no error:
\* no further line is read, and the trie and the code table stay as they
\* are.
C24_StopEndsCompilation ==
    [][SentinelRead =>
          /\ pc = "loop"
          /\ pc' = "done"
          /\ ~FINopen'
          /\ err' = "none"
          /\ out' = out
          /\ FINpos' = FINpos
          /\ ActorDict' = ActorDict
          /\ ActorCodes' = ActorCodes]_vars

\* K [M], ---STOP---, +Y: the compiler has returned with the stream closed,
\* the third line unread and only K in the trie
C24_Witness ==
    /\ file = <<A_primary, A_stop, A_synonym>>
    /\ pc = "done"
    /\ SentinelRead
    /\ Len(out) = 2
    /\ ~FINopen
    /\ err = "none"
    /\ DOMAIN ActorDict = {<<"K">>}
    /\ ActorCodes = <<>>

(***************************************************************************)
(* C25: the plural written between braces                                  *)
(***************************************************************************)
\* an agent line with a code, no marker and a phrase followed by {...}
BracesLine(l) ==
    /\ Len(l) > 0
    /\ In(<<"[">>, l) /\ In(<<"]">>, l)
    /\ ~In(<<"!">>, l)
    /\ In(<<"{">>, AgentPhrase(l)) /\ In(<<"}">>, AgentPhrase(l))
    /\ Find(AgentPhrase(l), <<"{">>) < Find(AgentPhrase(l), <<"}">>)
    /\ Find(AgentPhrase(l), <<"{">>) > 0

\* the phrase before the braces and the text between them
BracesPhrase(l) == Strip(SubSeq(AgentPhrase(l), 1, Find(AgentPhrase(l), <<"{">>)))
BracesPlural(l) ==
    Strip(SubSeq(AgentPhrase(l), Find(AgentPhrase(l), <<"{">>) + 2,
                 Find(AgentPhrase(l), <<"}">>)))

\* C25: handling an agent line with {X} adds two entries to the agent trie,
\* the phrase and X, both with the code of the line; handling an agent line
\* with {} adds one entry, the phrase.
C25_BracesPlural ==
    [][(pc = "loop" /\ BracesLine(line))
       => /\ pc' = "rd_loop"
          /\ HoldsAgent(AgentDict', BracesPhrase(line), AgentCode(line))
          /\ IF Len(BracesPlural(line)) > 0
             THEN /\ HoldsAgent(AgentDict', BracesPlural(line), AgentCode(line))
                  /\ EntryCount(AgentDict') = EntryCount(AgentDict) + 2
             ELSE EntryCount(AgentDict') = EntryCount(AgentDict) + 1]_vars

\* T {X} [~K] and R {} [~L] have been handled: T, X and R are stored, TS and
\* RS are not
C25_Witness ==
    /\ Handled = <<G_braces, G_noplural>>
    /\ BracesLine(G_braces) /\ BracesLine(G_noplural)
    /\ BracesPlural(G_braces) = <<"X">> /\ BracesPlural(G_noplural) = <<>>
    /\ HoldsAgent(AgentDict, <<"T">>, <<"~", "K">>)
    /\ HoldsAgent(AgentDict, <<"X">>, <<"~", "K">>)
    /\ HoldsAgent(AgentDict, <<"R">>, <<"~", "L">>)
    /\ DOMAIN AgentDict = {<<"T">>, <<"X">>, <<"R">>}
    /\ EntryCount(AgentDict) = 3

(***************************************************************************)
(* C26: the entries of a finished code list                                *)
(***************************************************************************)
\* the entry a tab-indented line writes: its tag from what follows the code
\* in the bracket, its days from the calendar, its code as written
WrittenEntry(l) ==
    LET r == WrittenRest(l)
        d == WrittenDates(l)
    IN  IF r = <<>> THEN Unrestricted(WrittenCode(l))
        ELSE IF r[1] = "<" THEN Before(WrittenDay(d[1]), WrittenCode(l))
        ELSE IF r[1] = ">" THEN After(WrittenDay(d[1]), WrittenCode(l))
        ELSE Interval(WrittenDay(d[1]), WrittenDay(d[2]), WrittenCode(l))

\* a tab-indented line with a bracket that is not rejected
AcceptedLine(l) ==
    /\ IsDateLine(l)
    /\ In(<<"[">>, l) /\ In(<<"]">>, l)
    /\ ~RejectedLine(l)

\* the entries the lines of a cluster write, in the order of the lines
RECURSIVE WrittenEntries(_)
WrittenEntries(ls) ==
    IF ls = <<>> THEN <<>>
    ELSE IF IsPrimaryLine(Head(ls))
    THEN (IF In(<<"[">>, Head(ls)) THEN <<Unrestricted(PrimaryCode(Head(ls)))>> ELSE <<>>)
             \o WrittenEntries(Tail(ls))
    ELSE IF AcceptedLine(Head(ls)) THEN <<WrittenEntry(Head(ls))>> \o WrittenEntries(Tail(ls))
    ELSE WrittenEntries(Tail(ls))

\* the code entries of a list: the text of the root actor, when the list
\* ends with it, is left out
CodeEntries(list) ==
    IF Len(list) > 0 /\ "root" \in DOMAIN list[Len(list)]
    THEN SubSeq(list, 1, Len(list) - 1)
    ELSE list

\* C26: when a primary line finishes the list of the cluster before it, the
\* list appended to the code table holds the code of that cluster's primary
\* line as Unrestricted, if it has one, and then one entry per accepted
\* tab-indented line, in line order, with the tag, the days and the code
\* the line writes.
C26_ListInFileOrder ==
    [][(pc = "loop" /\ OpenPrimary > 0 /\ Len(ActorCodes') = Len(ActorCodes) + 1)
       => CodeEntries(ActorCodes'[Len(ActorCodes')])
              = WrittenEntries(SubSeq(Handled, OpenPrimary, Len(Handled)))]_vars

(***************************************************************************)
(* C27: the code-list indices of different clusters                        *)
(***************************************************************************)
\* the indices the trie holds for the primary phrases handled so far
ClusterIndices ==
    {e[2][1] : e \in {x \in Entries(ActorDict) :
        \E h \in 1..Len(Handled) :
            /\ IsPrimaryLine(Handled[h])
            /\ x[1] = KeywordOf(PrimaryPhrase(Handled[h]))
            /\ Spells(x[2], PrimaryPhrase(Handled[h]))}}

\* C27: the index stored with the phrase of a primary line is the index of
\* no cluster handled before it.
C27_ClusterIndexFresh ==
    [][(pc = "loop" /\ IsPrimaryLine(line) /\ ~In(StopSentinel, line) /\ pc' = "rd_loop")
       => LET ph == PrimaryPhrase(line)
              list == ActorDict'[KeywordOf(ph)]
          IN  list[Len(list)][1] \notin ClusterIndices]_vars

(***************************************************************************)
(* C28: two actor files compiled in a row                                  *)
(***************************************************************************)
\* the code list an index resolves to in a code table
ResolvedList(codes, index) ==
    IF index < Len(codes) THEN [found |-> TRUE, list |-> codes[index + 1]]
    ELSE [found |-> FALSE, list |-> <<>>]

\* C28: while and after the second file is compiled, every phrase stored by
\* the first compilation resolves to the code list it resolved to when the
\* first compilation ended.
C28_FirstFileKeepsCodes ==
    pass = 2 =>
        \A e \in Entries(firstresult.actors) :
            ResolvedList(ActorCodes, e[2][1]) = ResolvedList(firstresult.codes, e[2][1])

(***************************************************************************)
(* C29: the anchor of a block                                              *)
(***************************************************************************)
\* a line the main loop takes as a verb: no header, no pattern, no synset
IsVerbLine(l) ==
    /\ Len(LineVerb(l)) > 0
    /\ LineVerb(l)[1] \notin {"-", "&"}

\* the verb a verb line writes, without the forms listed between braces
WrittenVerb(l) ==
    IF In(<<"{">>, LineVerb(l))
    THEN Strip(SubSeq(LineVerb(l), 1, Find(LineVerb(l), <<"{">>)))
    ELSE LineVerb(l)

\* the lines handled and the line being handled
WithCurrent == Append(Handled, line)

\* the last block header of the lines, 0 when there is none
LastHeader(ls) ==
    LET hs == {h \in 1..Len(ls) : IsHeaderLine(ls[h])}
    IN  IF hs = {} THEN 0 ELSE SetMax(hs)

\* the verb lines of the block that is open at the end of the lines
BlockVerbLines(ls) == {i \in (LastHeader(ls) + 1)..Len(ls) : IsVerbLine(ls[i])}

\* the payloads of the verb trie stored for a line
StoredFor(vd, l) ==
    {NodeAt(vd[K_verbs], p) :
        p \in {q \in Phrases(vd[K_verbs]) : NodeAt(vd[K_verbs], q)[K_line] = Str(l)}}

\* C29: handling a verb line of a block leaves theverb equal to the verb of
\* the first verb line after the block's header and stores the line in the
\* verb trie with that verb as meaning; a verb line that is not the first
\* after a header leaves theverb as it is.
C29_BlockAnchor ==
    [][(/\ pc = "loop" /\ ret = "main"
        /\ IsVerbLine(line)
        /\ pc' = "rd_loop")
       => LET ls == WithCurrent
              first == SetMin(BlockVerbLines(ls))
          IN  /\ LastHeader(ls) > 0 =>
                     /\ theverb' = WrittenVerb(ls[first])
                     /\ StoredFor(VerbDict', line) # {}
                     /\ \A n \in StoredFor(VerbDict', line) :
                            n[K_meaning] = Str(WrittenVerb(ls[first]))
              /\ (LastHeader(ls) = 0 \/ first < Len(ls)) => theverb' = theverb]_vars

\* header, GO, BE [8], A_+B: the three verb lines are stored with meaning GO
C29_Witness ==
    /\ Handled = <<V_header, V_verb, V_coded, V_multi>>
    /\ theverb = <<"G", "O">>
    /\ \A l \in {V_verb, V_coded, V_multi} :
           /\ StoredFor(VerbDict, l) # {}
           /\ \A n \in StoredFor(VerbDict, l) : n[K_meaning] = Str(<<"G", "O">>)
    /\ HasVerbEntry(<<"B", "E">>)
    /\ UnStr(VerbEntry(<<"B", "E">>)[K_meaning]) = <<"G", "O">>

(***************************************************************************)
(* C30: the anchor of a pattern line                                       *)
(***************************************************************************)
\* the anchors whose pattern tries differ between two tries
ChangedAnchors(old, new) ==
    {k \in DOMAIN new[K_phrases] :
        k \notin DOMAIN old[K_phrases] \/ new[K_phrases][k] # old[K_phrases][k]}

\* C30: a pattern line that is stored changes the pattern trie of the anchor
\* of its own block only: the verb of the first verb line after the last
\* header when the block has one, and otherwise no anchor that was there
\* before the line.
C30_PatternUnderOwnAnchor ==
    [][(/\ pc = "loop" /\ ret = "main"
        /\ IsPatternLine(line)
        /\ LastHeader(WithCurrent) > 0
        /\ pc' = "rd_loop")
       => IF BlockVerbLines(WithCurrent) # {}
          THEN ChangedAnchors(VerbDict, VerbDict')
                   \subseteq {WrittenVerb(WithCurrent[SetMin(BlockVerbLines(WithCurrent))])}
          ELSE ChangedAnchors(VerbDict, VerbDict') \cap DOMAIN VerbDict[K_phrases] = {}]_vars

(***************************************************************************)
(* C31: the code of a verb form                                            *)
(***************************************************************************)
\* what a line writes between its brackets, nothing when it has none
BracketCode(l) ==
    IF In(<<"[">>, l) /\ In(<<"]">>, l)
    THEN SubSeq(l, Find(l, <<"[">>) + 2, Find(l, <<"]">>))
    ELSE <<>>

\* the code a verb line of the open block is to carry: its own, else the one
\* of the last header, else the null code
DueCode(ls) ==
    IF BracketCode(ls[Len(ls)]) # <<>> THEN BracketCode(ls[Len(ls)])
    ELSE IF BracketCode(ls[LastHeader(ls)]) # <<>> THEN BracketCode(ls[LastHeader(ls)])
    ELSE <<"-", "-", "-">>

\* C31: every payload the verb trie holds for a verb line that has just been
\* handled carries the code between the brackets of the line, and when the
\* line has none the code of the last block header, which is --- for a
\* header without a code.
C31_VerbFormCode ==
    [][(/\ pc = "loop" /\ ret = "main"
        /\ IsVerbLine(line)
        /\ LastHeader(WithCurrent) > 0
        /\ pc' = "rd_loop")
       => /\ StoredFor(VerbDict', line) # {}
          /\ \A n \in StoredFor(VerbDict', line) : n[K_code] = Str(DueCode(WithCurrent))]_vars

\* header with 7, BE [8], header without a code, GO: BE carries 8 and GO,
\* GOS, GOED and GOING carry ---
C31_Witness ==
    /\ Handled = <<V_header, V_coded, V_nullheader, V_verb>>
    /\ HasVerbEntry(<<"B", "E">>) /\ VerbCode(<<"B", "E">>) = <<"8">>
    /\ \A f \in {<<"G", "O">>, <<"G", "O", "S">>, <<"G", "O", "E", "D">>,
                  <<"G", "O", "I", "N", "G">>} :
           HasVerbEntry(f) /\ VerbCode(f) = <<"-", "-", "-">>

(***************************************************************************)
(* C32: the regular forms of a verb                                        *)
(***************************************************************************)
\* the root of a verb line: the word marked by '+', or the verb itself
WrittenRoot(l) ==
    LET v == LineVerb(l)
        ws == SplitOn(v, <<"_">>)
        marked == {i \in 1..Len(ws) : Len(ws[i]) > 0 /\ ws[i][1] = "+"}
    IN  IF marked = {} THEN v ELSE Tail(ws[SetMin(marked)])

\* the three forms the rules give for a root
DueForms(root) ==
    LET last == root[Len(root)]
        most == SubSeq(root, 1, Len(root) - 1)
    IN  {IF last \in {"S", "X", "Z"} THEN root \o <<"E", "S">> ELSE root \o <<"S">>}
        \cup (IF last = "E" THEN {root \o <<"D">>, most \o <<"I", "N", "G">>}
              ELSE {root \o <<"E", "D">>, root \o <<"I", "N", "G">>})

\* the words the verb trie is keyed by for the payloads stored for a line
FormKeys(vd, l) ==
    {p[1] : p \in {q \in Phrases(vd[K_verbs]) : NodeAt(vd[K_verbs], q)[K_line] = Str(l)}}

\* C32: a verb line without a list of forms that has just been handled is
\* stored under its root and under the three regular forms of the root:
\* root+ES after S, X and Z and root+S otherwise; root+D and root without
\* its E +ING after E, root+ED and root+ING otherwise.
C32_RegularForms ==
    [][(/\ pc = "loop" /\ ret = "main"
        /\ IsVerbLine(line)
        /\ ~In(<<"{">>, line)
        /\ LastHeader(WithCurrent) > 0
        /\ pc' = "rd_loop")
       => FormKeys(VerbDict', line)
              = {WrittenRoot(line)} \cup DueForms(WrittenRoot(line))]_vars

(***************************************************************************)
(* C33: the place of the root in a multi-word verb                         *)
(***************************************************************************)
\* the words of the verb of a line and the place of the word marked by '+'
VerbWords(l) == SplitOn(LineVerb(l), <<"_">>)
RootPlace(l) ==
    SetMin({i \in 1..Len(VerbWords(l)) :
               Len(VerbWords(l)[i]) > 0 /\ VerbWords(l)[i][1] = "+"})
IsMultiWordLine(l) ==
    /\ IsVerbLine(l)
    /\ ~In(<<"{">>, l)
    /\ In(<<"_">>, LineVerb(l))
    /\ In(<<"+">>, LineVerb(l))

\* C33: a multi-word verb line that has just been handled is stored in the
\* verb trie under the word marked by '+', followed by the words after it in
\* the order written, the end of the following words, the words before it
\* from the nearest to the farthest, and the payload of the line.
C33_RootKeyed ==
    [][(/\ pc = "loop" /\ ret = "main"
        /\ IsMultiWordLine(line)
        /\ LastHeader(WithCurrent) > 0
        /\ pc' = "rd_loop")
       => LET ws == VerbWords(line)
              i == RootPlace(line)
              due == PhraseKeys(Tail(ws[i]), SubSeq(ws, i + 1, Len(ws)),
                                SubSeq(ws, 1, i - 1))
          IN  /\ due \in Phrases(VerbDict'[K_verbs])
              /\ NodeAt(VerbDict'[K_verbs], due)[K_line] = Str(line)]_vars

\* the same for the lines with one word beside the root
C33_OneNeighbour ==
    [][(/\ pc = "loop" /\ ret = "main"
        /\ IsMultiWordLine(line)
        /\ Len(VerbWords(line)) = 2
        /\ LastHeader(WithCurrent) > 0
        /\ pc' = "rd_loop")
       => LET ws == VerbWords(line)
              i == RootPlace(line)
              due == PhraseKeys(Tail(ws[i]), SubSeq(ws, i + 1, Len(ws)),
                                SubSeq(ws, 1, i - 1))
          IN  /\ due \in Phrases(VerbDict'[K_verbs])
              /\ NodeAt(VerbDict'[K_verbs], due)[K_line] = Str(line)]_vars

(***************************************************************************)
(* C34: the path of a pattern                                              *)
(***************************************************************************)
\* the words of a pattern line before and after '*', in the order written
PatternSides(l) == Partition(From(LineVerb(l), 1), <<"*">>)
UpperWords(l) == Split(Replace(PatternSides(l)[1], <<"_">>, <<" ">>))
LowerWords(l) == Split(Replace(PatternSides(l)[3], <<"_">>, <<" ">>))

\* the anchor of the block that is open at the end of the lines
BlockAnchor(ls) == WrittenVerb(ls[SetMin(BlockVerbLines(ls))])

\* C34: a pattern line without '{' that has just been handled, in a block
\* that has a verb line, is in the pattern trie of the block's anchor as the
\* words after '*' in the order written, the end of the lower words, the
\* words before '*' from the nearest to the farthest, and a payload with
\* the code of the line.
C34_PatternPath ==
    [][(/\ pc = "loop" /\ ret = "main"
        /\ IsPatternLine(line)
        /\ ~In(<<"{">>, line)
        /\ BlockVerbLines(WithCurrent) # {}
        /\ pc' = "rd_loop")
       => LET due == PhraseKeys(BlockAnchor(WithCurrent), LowerWords(line),
                                UpperWords(line))
          IN  /\ due \in Phrases(VerbDict'[K_phrases])
              /\ NodeAt(VerbDict'[K_phrases], due)[K_code] = Str(LineCode(line))
              /\ NodeAt(VerbDict'[K_phrases], due)[K_line] = Str(line)]_vars

C34_Witness ==
    /\ Handled = <<V_header, V_verb, V_upper>>
    /\ <<<<"G", "O">>, <<"R">>, K_hash, <<"D">>, <<"C">>, K_hash>> \in Phrases(VerbDict[K_phrases])

(***************************************************************************)
(* C35: the connector of pattern words                                     *)
(***************************************************************************)
\* the payloads of the pattern tries stored for a line
PatternPaths(vd, l) ==
    {p \in Phrases(vd[K_phrases]) : NodeAt(vd[K_phrases], p)[K_line] = Str(l)}

\* two lines that differ only in '_' for ' '
SameButConnector(a, b) ==
    /\ a # b
    /\ Replace(a, <<"_">>, <<" ">>) = Replace(b, <<"_">>, <<" ">>)

\* C35: two pattern lines that have been handled and differ only in joining
\* the same words with '_' or with a blank both have their entry in the
\* pattern tries, under different paths.
C35_ConnectorKept ==
    \A i, j \in 1..Len(Handled) :
        (/\ i < j
         /\ IsPatternLine(Handled[i]) /\ IsPatternLine(Handled[j])
         /\ ~In(<<"{">>, Handled[i])
         /\ SameButConnector(Handled[i], Handled[j])
         /\ BlockVerbLines(SubSeq(Handled, 1, i)) # {})
        => /\ PatternPaths(VerbDict, Handled[i]) # {}
           /\ PatternPaths(VerbDict, Handled[j]) # {}
           /\ PatternPaths(VerbDict, Handled[i]) # PatternPaths(VerbDict, Handled[j])

(***************************************************************************)
(* C36: pattern lines with '{'                                             *)
(***************************************************************************)
\* C36: handling a pattern line that contains '{' leaves the verb tries, the
\* anchor, the default code of the block and newblock as they were.
C36_BraceSkipped ==
    [][(/\ pc = "loop" /\ ret = "main"
        /\ IsPatternLine(line)
        /\ In(<<"{">>, line))
       => /\ pc' = "rd_loop"
          /\ VerbDict' = VerbDict
          /\ theverb' = theverb
          /\ primarycode' = primarycode
          /\ newblock' = newblock]_vars

C36_Witness ==
    /\ Handled = <<V_header, V_brace>>
    /\ pc = "rd_loop"
    /\ newblock
    /\ primarycode = <<"7">>
    /\ VerbDict[K_phrases] = EmptyDict

(***************************************************************************)
(* C37: the plural of a synset member                                      *)
(***************************************************************************)
\* a text without its final '_'
NoFinalUnderscore(t) == IF At(t, -1) = "_" THEN UpTo(t, -1) ELSE t

\* the last synset line of the lines, 0 when there is none
LastSynset(ls) ==
    LET ss == {i \in 1..Len(ls) : IsSynsetLine(ls[i])}
    IN  IF ss = {} THEN 0 ELSE SetMax(ss)

\* the member a member line writes
WrittenMember(l) == Strip(From(l, 1))

\* the plural the rule gives for a member
DuePlural(m) ==
    IF At(m, -1) = "Y" THEN UpTo(m, -1) \o <<"I", "E", "S">> ELSE m \o <<"S">>

\* the paths of the verb trie that lead to the payloads stored for a line
MemberPaths(vd, l) ==
    {p \in Phrases(vd[K_verbs]) : NodeAt(vd[K_verbs], p)[K_line] = Str(l)}

\* C37: a member line that has just been handled is stored under the name of
\* its synset as the member and, unless the synset name or the member ends
\* in '_', as its plural: final Y replaced by IES, S appended otherwise.
C37_MemberPlural ==
    [][(/\ pc = "loop" /\ ret = "synset"
        /\ Len(line) > 0 /\ line[1] = "+"
        /\ Len(NoFinalUnderscore(WrittenMember(line))) > 0
        /\ LastSynset(Handled) > 0
        /\ pc' = "rd_loop")
       => LET sy == LineVerb(Handled[LastSynset(Handled)])
              m == WrittenMember(line)
              name == NoFinalUnderscore(sy)
              member == NoFinalUnderscore(m)
              entry(w) == <<name, w, K_hash, K_hash>>
          IN  MemberPaths(VerbDict', line)
                  = IF At(sy, -1) = "_" \/ At(m, -1) = "_"
                    THEN {entry(member)}
                    ELSE {entry(member), entry(DuePlural(member))}]_vars

\* the same for the members that do not end in S
C37_NotAfterS ==
    [][(/\ pc = "loop" /\ ret = "synset"
        /\ Len(line) > 0 /\ line[1] = "+"
        /\ Len(NoFinalUnderscore(WrittenMember(line))) > 0
        /\ At(NoFinalUnderscore(WrittenMember(line)), -1) # "S"
        /\ LastSynset(Handled) > 0
        /\ pc' = "rd_loop")
       => LET sy == LineVerb(Handled[LastSynset(Handled)])
              m == WrittenMember(line)
              name == NoFinalUnderscore(sy)
              member == NoFinalUnderscore(m)
              entry(w) == <<name, w, K_hash, K_hash>>
          IN  MemberPaths(VerbDict', line)
                  = IF At(sy, -1) = "_" \/ At(m, -1) = "_"
                    THEN {entry(member)}
                    ELSE {entry(member), entry(DuePlural(member))}]_vars

(***************************************************************************)
(* C38: the month of a date string                                         *)
(***************************************************************************)
\* C38: for a date string of six or eight digits, DateError is raised when
\* the month is not one of 1..12, and an ordinal is returned only when the
\* string denotes a day of the calendar.
C38_MonthChecked ==
    (pc = "date_done" /\ SixOrEightDigits(dstr)) =>
        /\ MonthOf(dstr) \notin 1..12 => ~ordate.ok
        /\ ordate.ok => RealDate(dstr)

(***************************************************************************)
(* C39: sentence boundaries inside parentheses and quotations              *)
(***************************************************************************)
\* the text has an open parenthesis, a stray closing one or an open quotation
Unbalanced(t) ==
    \/ Cardinality({i \in 1..Len(t) : t[i] = "("})
           # Cardinality({i \in 1..Len(t) : t[i] = ")"})
    \/ Cardinality({i \in 1..Len(t) : t[i] = "\""}) % 2 = 1

\* C39: a candidate whose text up to the terminator has unequal numbers of
\* '(' and ')' or an odd number of double quotes is rejected: the text, the
\* sentences and the cuts stay and the search goes on behind it; so every
\* sentence that is emitted inside the loop is balanced.
C39_BalancedBoundary ==
    [][(pc = "seg_loop" /\ terpat_search(paragr, searchstart).found)
       => LET t == terpat_search(paragr, searchstart).start
          IN  /\ Unbalanced(SubSeq(paragr, 1, t))
                    => /\ paragr' = paragr
                       /\ sentlist' = sentlist
                       /\ cuts' = cuts
                       /\ searchstart' > t
              /\ sentlist' # sentlist
                    => ~Unbalanced(sentlist'[Len(sentlist')])]_vars

\* a sentence with a parenthesis that spans a rejected terminator
C39_Witness ==
    /\ pc = "seg_loop"
    /\ sentlist = <<P_parenthesis \o P_close>>
    /\ paragr = P_word

(***************************************************************************)
(* C40: the segmenter ends                                                 *)
(***************************************************************************)
\* s is the text t from position k (from 0) on
SuffixFrom(s, t, k) == k \in 0..Len(t) /\ s = SubSeq(t, k + 1, Len(t))

\* C40: every pass through the loop either cuts a beginning off the text
\* and searches the rest from 0, or leaves the text and moves the search
\* position forward, behind the rejected terminator and never beyond the
\* end of the text, so that the length of the text and then the distance of
\* the search position from its end decrease; a sentence emitted
\* in the loop is a beginning of the text that ends where the rest starts
\* or before it, and the last sentence is the rest itself: the sentences
\* follow each other in the input without overlap.
C40_Progress ==
    [][pc = "seg_loop"
       => /\ searchstart <= Len(paragr)
          /\ IF pc' = "seg_loop"
             THEN \/ /\ Len(paragr') < Len(paragr)
                     /\ SuffixFrom(paragr', paragr, Len(paragr) - Len(paragr'))
                     /\ searchstart' = 0
                     /\ \/ sentlist' = sentlist
                        \/ /\ Len(sentlist') = Len(sentlist) + 1
                           /\ SubSeq(sentlist', 1, Len(sentlist)) = sentlist
                           /\ LET s == sentlist'[Len(sentlist')]
                              IN  /\ Len(s) <= Len(paragr) - Len(paragr')
                                  /\ s = SubSeq(paragr, 1, Len(s))
                  \/ /\ paragr' = paragr
                     /\ searchstart' > searchstart
                     /\ searchstart' > terpat_search(paragr, searchstart).start
                     /\ searchstart' <= Len(paragr)
                     /\ sentlist' = sentlist
             ELSE /\ pc' = "seg_done"
                  /\ paragr' = paragr
                  /\ sentlist' \in {sentlist, Append(sentlist, paragr)}]_vars

\* a run with an accepted and a rejected terminator and two sentences
C40_Witness ==
    /\ pc = "seg_done"
    /\ Len(sentlist) = 2
    /\ Len(cuts) = 1
    /\ searchstart > 0

=============================================================================
